---- MODULE Spec2Model ----
(***************************************************************************)
(* External Sources MCP server (testin-ext-sources/server/server.py):      *)
(* the crawl engine (crawl_source and its helpers) and the findings store  *)
(* (save_findings, list_findings, clear_findings over findings_cache.json).*)
(*                                                                         *)
(* Python strings are modelled as tuples of one-character strings, so that *)
(* slicing, substring search, lower-casing, URL parsing and int() parsing  *)
(* are computed on the characters as the code computes them.               *)
(***************************************************************************)
EXTENDS Integers, Sequences, FiniteSets, TLC

\* ------------------------------------------------------------------ bounds
\* Longest seed page (number of anchors) enumerated exhaustively.
MaxAnchors == 2
\* Largest page budget passed as a plain integer.
MaxBudget == 2
\* Largest clock value (ticks of datetime.now()).
MaxTime == 1
\* Longest batch handed to save_findings.
MaxBatch == 2

\* ------------------------------------------------------- program constants
\* crawl_source(url, max_subpages=10)
DefaultMaxSubpages == 10
\* results["interesting_links_found"] = interesting[:30]
InterestingCap == 30
\* "text_preview": main_text[:3000]
HomePreviewLen == 3000
\* "text_preview": sub_text[:2000]
SubPreviewLen == 2000
\* "title": link["text"][:100]
TitleLen == 100
\* link_text = a.get_text(strip=True)[:200]
LinkTextLen == 200

\* ------------------------------------------------------------ Python str
Min(a, b) == IF a <= b THEN a ELSE b

\* F applied to the value of e, which is computed once
Bind(e, F(_)) == CHOOSE r \in {F(x) : x \in {e}} : TRUE

EmptyStr == << >>

UpperChars ==
    {"A", "B", "C", "D", "E", "F", "G", "H", "I", "J", "K", "L", "M",
     "N", "O", "P", "Q", "R", "S", "T", "U", "V", "W", "X", "Y", "Z"}

LowerChars ==
    {"a", "b", "c", "d", "e", "f", "g", "h", "i", "j", "k", "l", "m",
     "n", "o", "p", "q", "r", "s", "t", "u", "v", "w", "x", "y", "z"}

DigitChars == {"0", "1", "2", "3", "4", "5", "6", "7", "8", "9"}

LowerOf ==
    [c \in UpperChars |->
        CASE c = "A" -> "a" [] c = "B" -> "b" [] c = "C" -> "c" [] c = "D" -> "d"
          [] c = "E" -> "e" [] c = "F" -> "f" [] c = "G" -> "g" [] c = "H" -> "h"
          [] c = "I" -> "i" [] c = "J" -> "j" [] c = "K" -> "k" [] c = "L" -> "l"
          [] c = "M" -> "m" [] c = "N" -> "n" [] c = "O" -> "o" [] c = "P" -> "p"
          [] c = "Q" -> "q" [] c = "R" -> "r" [] c = "S" -> "s" [] c = "T" -> "t"
          [] c = "U" -> "u" [] c = "V" -> "v" [] c = "W" -> "w" [] c = "X" -> "x"
          [] c = "Y" -> "y" [] c = "Z" -> "z"]

\* str.lower()
Lower(str) ==
    Bind(str, LAMBDA s :
        [i \in 1..Len(s) |-> IF s[i] \in UpperChars THEN LowerOf[s[i]] ELSE s[i]])

\* s[:n]
Take(str, n) == Bind(str, LAMBDA s : SubSeq(s, 1, Min(n, Len(s))))

\* s[n:]  (0-based n, as in Python)
Drop(str, n) == Bind(str, LAMBDA s : SubSeq(s, n + 1, Len(s)))

\* sub in s
Contains(str, substr) ==
    \E s \in {str}, sub \in {substr} :
        \E i \in 1..(Len(s) - Len(sub) + 1) : SubSeq(s, i, i + Len(sub) - 1) = sub

\* s.startswith(p)
StartsWith(str, prefix) ==
    \E s \in {str}, p \in {prefix} : Len(s) >= Len(p) /\ SubSeq(s, 1, Len(p)) = p

\* 1-based position of the first character of s that lies in cs; Len(s)+1 if none
FirstIn(str, cs) ==
    Bind(str, LAMBDA s :
        IF \E i \in 1..Len(s) : s[i] \in cs
        THEN CHOOSE i \in 1..Len(s) : s[i] \in cs /\ \A j \in 1..(i - 1) : s[j] \notin cs
        ELSE Len(s) + 1)

\* 1-based position of the last character of s that lies in cs; 0 if none
LastIn(str, cs) ==
    Bind(str, LAMBDA s :
        IF \E i \in 1..Len(s) : s[i] \in cs
        THEN CHOOSE i \in 1..Len(s) : s[i] \in cs /\ \A j \in (i + 1)..Len(s) : s[j] \notin cs
        ELSE 0)

WhiteChars == {" "}

\* the first position from i on, and the last one up to i, of a character of
\* s that is not in cs; Len(s) + 1 and 0 if there is none
RECURSIVE FirstOutside(_, _, _)
FirstOutside(s, cs, i) ==
    IF i > Len(s) \/ s[i] \notin cs THEN i ELSE FirstOutside(s, cs, i + 1)

RECURSIVE LastOutside(_, _, _)
LastOutside(s, cs, i) ==
    IF i < 1 \/ s[i] \notin cs THEN i ELSE LastOutside(s, cs, i - 1)

\* str.strip()
Strip(str) ==
    Bind(str, LAMBDA s :
        SubSeq(s, FirstOutside(s, WhiteChars, 1), LastOutside(s, WhiteChars, Len(s))))

\* ----------------------------------------------------- string literals
S_http == <<"h", "t", "t", "p">>
S_https == <<"h", "t", "t", "p", "s">>
S_ftp == <<"f", "t", "p">>
S_file == <<"f", "i", "l", "e">>
S_hash == <<"#">>
S_javascript == <<"j", "a", "v", "a", "s", "c", "r", "i", "p", "t", ":">>
S_mailto == <<"m", "a", "i", "l", "t", "o", ":">>
S_slash == <<"/">>
S_slashslash == <<"/", "/">>
S_colon == <<":">>
S_qmark == <<"?">>
S_space == <<" ">>
S_Homepage == <<"H", "o", "m", "e", "p", "a", "g", "e">>

\* keywords of _looks_interesting
keywords ==
    << <<"s", "y", "l", "l", "a", "b", "u", "s">>,
       <<"h", "o", "m", "e", "w", "o", "r", "k">>,
       <<"a", "s", "s", "i", "g", "n", "m", "e", "n", "t">>,
       <<"h", "w">>,
       <<"p", "r", "o", "b", "l", "e", "m", " ", "s", "e", "t">>,
       <<"p", "s", "e", "t">>,
       <<"e", "x", "a", "m">>,
       <<"m", "i", "d", "t", "e", "r", "m">>,
       <<"f", "i", "n", "a", "l">>,
       <<"q", "u", "i", "z">>,
       <<"t", "e", "s", "t">>,
       <<"o", "f", "f", "i", "c", "e", " ", "h", "o", "u", "r">>,
       <<"o", "h">>,
       <<"s", "c", "h", "e", "d", "u", "l", "e">>,
       <<"c", "a", "l", "e", "n", "d", "a", "r">>,
       <<"g", "r", "a", "d", "e">>,
       <<"g", "r", "a", "d", "i", "n", "g">>,
       <<"p", "o", "l", "i", "c", "y">>,
       <<"p", "o", "l", "i", "c", "i", "e", "s">>,
       <<"l", "e", "c", "t", "u", "r", "e">>,
       <<"s", "l", "i", "d", "e">>,
       <<"n", "o", "t", "e">>,
       <<"r", "e", "a", "d", "i", "n", "g">>,
       <<"l", "a", "b">>,
       <<"p", "r", "o", "j", "e", "c", "t">>,
       <<"r", "e", "c", "i", "t", "a", "t", "i", "o", "n">>,
       <<"s", "e", "c", "t", "i", "o", "n">>,
       <<"t", "a">>,
       <<"s", "t", "a", "f", "f">>,
       <<"i", "n", "s", "t", "r", "u", "c", "t", "o", "r">>,
       <<"p", "r", "o", "f", "e", "s", "s", "o", "r">>,
       <<".", "p", "d", "f">>,
       <<".", "d", "o", "c", "x">>,
       <<".", "d", "o", "c">> >>

\* extensions never followed by crawl_source
SkippedExtensions ==
    { <<"z", "i", "p">>,
      <<"t", "a", "r">>,
      <<"g", "z">>,
      <<"m", "p", "4">>,
      <<"m", "o", "v">>,
      <<"a", "v", "i">>,
      <<"m", "p", "3">>,
      <<"w", "a", "v">> }

\* --------------------------------------------------------- urllib.parse
SchemeChars == LowerChars \cup UpperChars \cup DigitChars \cup {"+", "-", "."}

\* schemes urljoin resolves relative references for (urllib.parse.uses_relative,
\* which for these schemes coincides with uses_netloc)
UsesRelative == {EmptyStr, S_http, S_https, S_ftp, S_file}

\* urlparse(url): scheme, netloc, path, query and fragment of url
urlparse(url) ==
    Bind(url, LAMBDA u :
    Bind(FirstIn(u, {":"}), LAMBDA c :
    Bind(/\ c > 1
         /\ c <= Len(u)
         /\ u[1] \in LowerChars \cup UpperChars
         /\ \A k \in 1..(c - 1) : u[k] \in SchemeChars, LAMBDA hasScheme :
    Bind(IF hasScheme THEN Drop(u, c) ELSE u, LAMBDA r1 :
    Bind(StartsWith(r1, S_slashslash), LAMBDA hasNetloc :
    Bind(IF hasNetloc THEN Drop(r1, 2) ELSE r1, LAMBDA r1b :
    Bind(IF hasNetloc THEN FirstIn(r1b, {"/", "?", "#"}) ELSE 1, LAMBDA d :
    Bind(Drop(r1b, d - 1), LAMBDA r2 :
    Bind(FirstIn(r2, {"#"}), LAMBDA h :
    Bind(SubSeq(r2, 1, h - 1), LAMBDA r3 :
    Bind(FirstIn(r3, {"?"}), LAMBDA q :
        [scheme   |-> IF hasScheme THEN Lower(SubSeq(u, 1, c - 1)) ELSE EmptyStr,
         netloc   |-> SubSeq(r1b, 1, d - 1),
         path     |-> SubSeq(r3, 1, q - 1),
         query    |-> Drop(r3, q),
         fragment |-> Drop(r2, h)])))))))))))

\* urlunparse((scheme, netloc, path, '', query, fragment))
urlunparse(parts) ==
    Bind(parts, LAMBDA p :
    Bind(IF p.netloc # EmptyStr /\ p.path # EmptyStr /\ ~StartsWith(p.path, S_slash)
         THEN S_slash \o p.path ELSE p.path, LAMBDA path1 :
    Bind(IF p.netloc # EmptyStr \/ (p.scheme \in UsesRelative /\ p.scheme # EmptyStr
                                    /\ ~StartsWith(path1, S_slashslash))
         THEN S_slashslash \o p.netloc \o path1 ELSE path1, LAMBDA u1 :
    Bind(IF p.scheme # EmptyStr THEN p.scheme \o S_colon \o u1 ELSE u1, LAMBDA u2 :
    Bind(IF p.query # EmptyStr THEN u2 \o S_qmark \o p.query ELSE u2, LAMBDA u3 :
        IF p.fragment # EmptyStr THEN u3 \o S_hash \o p.fragment ELSE u3)))))

\* urljoin(base, url), for references without "." and ".." segments
urljoin(base, url) ==
    Bind(urlparse(base), LAMBDA b :
    Bind(urlparse(url), LAMBDA u0 :
    Bind(IF u0.scheme = EmptyStr THEN b.scheme ELSE u0.scheme, LAMBDA scheme :
        IF base = EmptyStr THEN url
        ELSE IF url = EmptyStr THEN base
        ELSE IF scheme # b.scheme \/ scheme \notin UsesRelative THEN url
        ELSE IF u0.netloc # EmptyStr
             THEN urlunparse([u0 EXCEPT !.scheme = scheme])
        ELSE IF u0.path = EmptyStr
             THEN urlunparse([scheme |-> scheme, netloc |-> b.netloc, path |-> b.path,
                              query |-> IF u0.query = EmptyStr THEN b.query ELSE u0.query,
                              fragment |-> u0.fragment])
        ELSE Bind(IF StartsWith(u0.path, S_slash) THEN u0.path
                  ELSE SubSeq(b.path, 1, LastIn(b.path, {"/"})) \o u0.path, LAMBDA joined :
                 urlunparse([scheme |-> scheme, netloc |-> b.netloc,
                             path |-> IF joined = EmptyStr THEN S_slash ELSE joined,
                             query |-> u0.query, fragment |-> u0.fragment])))))

\* ------------------------------------------------------------- helpers
\* _is_same_site(url1, url2)
_is_same_site(url1, url2) == urlparse(url1).netloc = urlparse(url2).netloc

\* _looks_interesting(url, link_text)
_looks_interesting(url, link_text) ==
    \E combined \in {Lower(url \o S_space \o link_text)} :
        \E k \in 1..Len(keywords) : Contains(combined, keywords[k])

\* mutant: a later anchor of an address already seen replaces the earlier one
LinkStep_LastWins(a, base_url, links, seen) ==
    Bind(Strip(a.href), LAMBDA href :
        IF \/ href = EmptyStr
           \/ StartsWith(href, S_hash)
           \/ StartsWith(href, S_javascript)
           \/ StartsWith(href, S_mailto)
        THEN [links |-> links, seen |-> seen]
        ELSE Bind(urljoin(base_url, href), LAMBDA absolute_url :
                 [links |-> Append(SelectSeq(links, LAMBDA l : l.url # absolute_url),
                                   [url |-> absolute_url,
                                    text |-> Take(Strip(a.text), LinkTextLen)]),
                  seen |-> seen \cup {absolute_url}]))

\* one pass of the loop body over an anchor: the links and the seen set after it
LinkStep(a, base_url, links, seen) ==
    Bind(Strip(a.href), LAMBDA href :
        IF \/ href = EmptyStr
           \/ StartsWith(href, S_hash)
           \/ StartsWith(href, S_javascript)
           \/ StartsWith(href, S_mailto)
        THEN [links |-> links, seen |-> seen]
        ELSE Bind(urljoin(base_url, href), LAMBDA absolute_url :
                 IF absolute_url \in seen
                 THEN [links |-> links, seen |-> seen]
                 ELSE [links |-> Append(links, [url |-> absolute_url,
                                                text |-> Take(Strip(a.text), LinkTextLen)]),
                       seen |-> seen \cup {absolute_url}]))

\* the loop over soup.find_all("a", href=True), from the i-th anchor on
RECURSIVE ExtractLinksFrom(_, _, _, _, _)
ExtractLinksFrom(anchors, i, base_url, links, seen) ==
    IF i > Len(anchors) THEN links
    ELSE CHOOSE r \in {ExtractLinksFrom(anchors, i + 1, base_url, st.links, st.seen) :
                           st \in {LinkStep(anchors[i], base_url, links, seen)}} : TRUE

\* _extract_links(html, base_url): html is the parsed document, html.anchors its
\* <a href=...> elements in document order
_extract_links(html, base_url) ==
    Bind(html.anchors, LAMBDA anchors :
        Bind(base_url, LAMBDA base : ExtractLinksFrom(anchors, 1, base, << >>, {})))

\* _extract_text(html): the readable text of the parsed document
_extract_text(html) == Strip(html.text)

\* ------------------------------------------------- loosely-typed arguments
\* A value delivered by the tool transport: an int (t = "int", n), a str
\* (t = "str", s), None (t = "none") or a dict (t = "dict", d: its items in
\* insertion order, each a key k and a primitive value p).
PyInt(n) == [t |-> "int", n |-> n, s |-> EmptyStr, d |-> << >>]
PyStr(s) == [t |-> "str", n |-> 0, s |-> s, d |-> << >>]
PyNone == [t |-> "none", n |-> 0, s |-> EmptyStr, d |-> << >>]
PyDict(items) == [t |-> "dict", n |-> 0, s |-> EmptyStr, d |-> items]

DigitVal ==
    [c \in DigitChars |->
        CASE c = "0" -> 0 [] c = "1" -> 1 [] c = "2" -> 2 [] c = "3" -> 3 [] c = "4" -> 4
          [] c = "5" -> 5 [] c = "6" -> 6 [] c = "7" -> 7 [] c = "8" -> 8 [] c = "9" -> 9]

RECURSIVE DigitsValue(_)
DigitsValue(ds) ==
    IF ds = EmptyStr THEN 0
    ELSE 10 * DigitsValue(SubSeq(ds, 1, Len(ds) - 1)) + DigitVal[ds[Len(ds)]]

\* int(val): [ok |-> TRUE, v |-> the integer] or [ok |-> FALSE] with the
\* exception raised (ValueError for a non-numeric str, TypeError for None or a dict)
int(val) ==
    Bind(Strip(val.s), LAMBDA body :
    Bind(body # EmptyStr /\ body[1] \in {"+", "-"}, LAMBDA signed :
    Bind(IF signed THEN Drop(body, 1) ELSE body, LAMBDA digits :
        CASE val.t = "int" -> [ok |-> TRUE, v |-> val.n, exc |-> "none"]
          [] val.t = "str" ->
                IF digits # EmptyStr /\ \A i \in 1..Len(digits) : digits[i] \in DigitChars
                THEN [ok |-> TRUE,
                      v |-> IF signed /\ body[1] = "-" THEN 0 - DigitsValue(digits)
                            ELSE DigitsValue(digits),
                      exc |-> "none"]
                ELSE [ok |-> FALSE, v |-> 0, exc |-> "ValueError"]
          [] OTHER -> [ok |-> FALSE, v |-> 0, exc |-> "TypeError"])))

HasKey(items, key) == \E i \in 1..Len(items) : items[i].k = key

GetKey(items, key) == items[CHOOSE i \in 1..Len(items) : items[i].k = key].p

CoerceIntKeys == <<"max_subpages", "max_subpages_per_source", "value">>

\* _coerce_int(val, default): [raised |-> FALSE, v |-> the int] when it returns,
\* [raised |-> TRUE] when an exception leaves it. Only the final int(val) is
\* inside the try; the int() calls of the dict branch are not.
_coerce_int(val, default) ==
    IF val.t = "dict" /\ val.d # << >>
    THEN Bind({i \in 1..Len(CoerceIntKeys) : HasKey(val.d, CoerceIntKeys[i])}, LAMBDA known :
         Bind(IF known # {}
              THEN int(GetKey(val.d, CoerceIntKeys[CHOOSE i \in known : \A j \in known : i <= j]))
              ELSE int(val.d[1].p), LAMBDA inner :
              [raised |-> ~inner.ok, v |-> inner.v, exc |-> inner.exc]))
    ELSE Bind(int(val), LAMBDA outer :
              [raised |-> FALSE, v |-> IF outer.ok THEN outer.v ELSE default, exc |-> "none"])

\* ------------------------------------------------------------ the web
SeedUrl == <<"h", "t", "t", "p", "s", ":", "/", "/", "c", "s", ".", "e", "d", "u", "/">>
RedirectUrl == <<"h", "t", "t", "p", "s", ":", "/", "/", "w", "w", "w", ".", "c", "s", ".", "e", "d", "u", "/">>
H_syllabus == <<"/", "s", "y", "l", "l", "a", "b", "u", "s", ".", "h", "t", "m", "l">>
T_syllabus == <<"S", "y", "l", "l", "a", "b", "u", "s">>
H_home == <<"/">>
T_home == <<"H", "o", "m", "e">>
H_external == <<"h", "t", "t", "p", "s", ":", "/", "/", "o", "t", "h", "e", "r", ".", "e", "x", "a", "m", "p", "l", "e", "/", "x">>
T_external == <<"M", "o", "r", "e">>
H_w3 == <<"h", "t", "t", "p", "s", ":", "/", "/", "w", "3", ".", "o", "r", "g", "/">>
T_w3 == <<"W", "3", "C">>
H_zip == <<"/", "d", "a", "t", "a", ".", "z", "i", "p">>
T_zip == <<"D", "a", "t", "a">>
H_ftp == <<"f", "t", "p", ":", "/", "/", "c", "s", ".", "e", "d", "u", "/", "f">>
T_ftp == <<"F", "i", "l", "e", "s">>
H_mailto == <<"m", "a", "i", "l", "t", "o", ":", "p", "r", "o", "f", "@", "c", "s", ".", "e", "d", "u">>
T_mailto == <<"M", "a", "i", "l">>
U_syllabus == SeedUrl \o <<"s", "y", "l", "l", "a", "b", "u", "s", ".", "h", "t", "m", "l">>
S_body == <<"b", "o", "d", "y">>
S_z == <<"/", "z">>
S_dotzip == <<".", "z", "i", "p">>
S_abc == <<"a", "b", "c">>
S_one == <<"1">>

Anchor(href, text) == [href |-> href, text |-> text]

A_syllabus == Anchor(H_syllabus, T_syllabus)
A_home == Anchor(H_home, T_home)
A_external == Anchor(H_external, T_external)
A_w3 == Anchor(H_w3, T_w3)
A_zip == Anchor(H_zip, T_zip)
A_ftp == Anchor(H_ftp, T_ftp)
A_mailto == Anchor(H_mailto, T_mailto)

\* the anchors seed pages are built from
Anchors == {A_syllabus, A_home, A_w3, A_zip, A_ftp, A_mailto}

Html(anchors, rejected) == [anchors |-> anchors, text |-> S_body, rejected |-> rejected]

DigitChar == <<"0", "1", "2", "3", "4", "5", "6", "7", "8", "9">>

\* str(n) for n >= 0
RECURSIVE NatToStr(_)
NatToStr(n) == IF n < 10 THEN <<DigitChar[n + 1]>> ELSE NatToStr(n \div 10) \o <<DigitChar[(n % 10) + 1]>>

\* the scenario page: Syllabus -> /syllabus.html, Home -> /, an external link
ScenarioPage == Html(<<A_syllabus, A_home, A_external>>, FALSE)

\* a page whose first InterestingCap candidates are archives (never followed),
\* followed by two ordinary same-site links
LongPage ==
    Html([i \in 1..InterestingCap |-> Anchor(S_z \o NatToStr(i) \o S_dotzip, T_zip)]
            \o <<A_syllabus, A_home>>, FALSE)

\* a page whose markup the HTML parser refuses (BeautifulSoup raises)
RejectedPage == Html(<<A_syllabus>>, TRUE)

SeedPages ==
    {Html(as, FALSE) : as \in UNION {[1..n -> Anchors] : n \in 0..MaxAnchors}}
        \cup {ScenarioPage, LongPage, RejectedPage}

\* what one httpx.get of _fetch_page can end in: an exception (transport failure,
\* timeout, raise_for_status on a non-2xx response) or a document and the final URL
FetchError == [status |-> "error", html |-> Html(<< >>, FALSE), final_url |-> EmptyStr]
FetchOk(html, final_url) == [status |-> "ok", html |-> html, final_url |-> final_url]

SeedResponses(url) ==
    {FetchError} \cup {FetchOk(h, f) : h \in SeedPages, f \in {url, RedirectUrl}}

\* content-type headers, and the two substrings _fetch_page looks for in them
S_texthtml == <<"t", "e", "x", "t", "/", "h", "t", "m", "l">>
S_textplain == <<"t", "e", "x", "t", "/", "p", "l", "a", "i", "n">>
CT_html == <<"t", "e", "x", "t", "/", "h", "t", "m", "l", ";", " ", "c", "h", "a", "r", "s", "e", "t", "=", "u", "t", "f", "-", "8">>
CT_plain == <<"t", "e", "x", "t", "/", "p", "l", "a", "i", "n">>
CT_pdf == <<"a", "p", "p", "l", "i", "c", "a", "t", "i", "o", "n", "/", "p", "d", "f">>
S_nonhtml == <<"(", "N", "o", "n", "-", "H", "T", "M", "L", " ", "c", "o", "n", "t", "e", "n", "t", ":", " ">>
S_rparen == <<")">>

\* What httpx.get(url, follow_redirects=True) ends in: no response at all
\* (transport = "failed": connection error, timeout, too many redirects), or
\* the last response of the redirect chain with its status code, content-type
\* header, body (the document it parses to) and url.
Http(transport, status_code, content_type, body, url) ==
    [transport |-> transport, status_code |-> status_code,
     content_type |-> content_type, body |-> body, url |-> url]

NoResponse(url) == Http("failed", 0, EmptyStr, Html(<< >>, FALSE), url)

\* a document that is its text and nothing else
PlainDoc(text) == [anchors |-> << >>, text |-> text, rejected |-> FALSE]

\* f"(Non-HTML content: {content_type})"
NonHtmlPlaceholder(content_type) == S_nonhtml \o content_type \o S_rparen

\* mutant: a body that is neither HTML nor plain text is refused
_fetch_page_TextOnly(r) ==
    IF r.transport # "ok" \/ r.status_code \notin 200..299 THEN FetchError
    ELSE IF ~Contains(r.content_type, S_texthtml) /\ ~Contains(r.content_type, S_textplain)
         THEN FetchError
    ELSE FetchOk(r.body, r.url)

\* _fetch_page(url) on the exchange r: httpx.get or raise_for_status raises,
\* or the placeholder or the body is returned with the final url (bodies are
\* shorter than MAX_CONTENT_LENGTH)
_fetch_page(r) ==
    IF r.transport # "ok" \/ r.status_code \notin 200..299 THEN FetchError
    ELSE IF ~Contains(r.content_type, S_texthtml) /\ ~Contains(r.content_type, S_textplain)
         THEN FetchOk(PlainDoc(NonHtmlPlaceholder(r.content_type)), r.url)
    ELSE FetchOk(r.body, r.url)

\* what the request of a sub-page can end in
SubHttp(url) ==
    {NoResponse(url),
     Http("ok", 404, CT_html, Html(<< >>, FALSE), url),
     Http("ok", 200, CT_html, Html(<< >>, FALSE), url),
     Http("ok", 200, CT_html, Html(<< >>, TRUE), url),
     Http("ok", 200, CT_pdf, Html(<< >>, FALSE), url)}

SubResponses(url) == {_fetch_page(r) : r \in SubHttp(url)}

\* the max_subpages arguments the transport delivers
BudgetArgs ==
    {PyInt(n) : n \in (0 - 1)..MaxBudget}
        \cup {PyStr(S_one), PyStr(S_abc), PyNone, PyDict(<< >>),
              PyDict(<<[k |-> "max_subpages", p |-> PyInt(1)]>>),
              PyDict(<<[k |-> "n", p |-> PyStr(S_one)]>>),
              PyDict(<<[k |-> "value", p |-> PyStr(S_abc)]>>),
              PyDict(<<[k |-> "value", p |-> PyNone]>>)}

\* ------------------------------------------------------------- state
VARIABLES
    pc,            \* crawl_source: "idle", "following", "returned" or "raised"
    call,          \* the arguments of the crawl_source call in progress
    max_subpages,  \* crawl_source's max_subpages after _coerce_int
    all_links,     \* crawl_source's all_links
    interesting,   \* crawl_source's interesting (the uncapped candidate list)
    results,       \* crawl_source's results dict
    idx,           \* how many entries of interesting the follow loop has consumed
    followed,      \* crawl_source's followed counter
    netlog,        \* every httpx.get the call has made: its url and how it ended
    cache,         \* findings_cache.json as _read_cache returns it
    now,           \* datetime.now(), in ticks
    before,        \* the stored findings when the findings tool called last began
    lastCall,      \* the findings tool called last and the list it was handed
    ret,           \* what that tool returned
    registry,      \* LINKS.json as _read_links returns it
    spc,           \* crawl_all_sources: "idle", "sweeping", "returned" or "raised"
    sweep_links,   \* crawl_all_sources's links, read once when the sweep starts
    all_results,   \* crawl_all_sources's all_results
    max_subpages_per_source,  \* crawl_all_sources's argument after _coerce_int
    sweepRet,      \* what crawl_all_sources returned
    saver,         \* the save_findings calls running side by side, each with its locals
    lister,        \* a list_findings call running beside them, with its locals
    fetched,       \* the fetch_page call in progress: its argument, its request, its result
    listed         \* what add_source or remove_source returned

crawlVars == <<pc, call, max_subpages, all_links, interesting, results, idx, followed, netlog>>
storeVars == <<cache, now, before, lastCall, ret>>
sweepVars == <<registry, spc, sweep_links, all_results, max_subpages_per_source, sweepRet, listed>>
vars == <<pc, call, max_subpages, all_links, interesting, results, idx, followed, netlog,
          cache, now, before, lastCall, ret,
          registry, spc, sweep_links, all_results, max_subpages_per_source, sweepRet, saver,
          lister, fetched, listed>>

\* --------------------------------------------------------- crawl_source
\* _coerce_str(val): the str a loosely-typed value stands for
CoerceStrKeys == <<"url", "value", "text", "source_id">>

_coerce_str(val) ==
    LET known == {i \in 1..Len(CoerceStrKeys) : HasKey(val.d, CoerceStrKeys[i])}
        first == CHOOSE i \in known : \A j \in known : i <= j
        str(v) == CASE v.t = "str" -> v.s
                    [] v.t = "int" -> IF v.n < 0 THEN <<"-">> \o NatToStr(0 - v.n) ELSE NatToStr(v.n)
                    [] v.t = "none" -> <<"N", "o", "n", "e">>
                    [] OTHER -> <<"{", "}">>
    IN  IF val.t = "dict" /\ val.d # << >>
        THEN IF known # {} THEN str(GetKey(val.d, CoerceStrKeys[first])) ELSE str(val.d[1].p)
        ELSE str(val)

\* the url arguments the transport delivers
UrlArgs == {PyStr(SeedUrl), PyDict(<<[k |-> "url", p |-> PyStr(SeedUrl)]>>)}

\* results as crawl_source creates it
NewResults(url) ==
    [source_url |-> url, pages_crawled |-> << >>,
     interesting_links_found |-> << >>, errors |-> << >>]

\* how one fetch-and-extract attempt ends: _fetch_page raises, _extract_text
\* raises on the fetched markup, or both return
Outcome(resp) ==
    IF resp.status = "error" THEN "fetch_error"
    ELSE IF resp.html.rejected THEN "parse_error"
    ELSE "ok"

\* str(e) of the exception an attempt ends in
ErrorText(resp) == IF resp.status = "error" THEN "HTTPError" ELSE "ParserRejectedMarkup"

\* mutant: the cap of the reported list is applied to the list that is followed
Interesting_Capped(url, links) ==
    Take(SelectSeq(links, LAMBDA link : \/ _looks_interesting(link.url, link.text)
                                        \/ _is_same_site(url, link.url)),
         InterestingCap)

\* the candidate list: links the classifier accepts or that share the seed's site
Interesting(url, links) ==
    SelectSeq(links, LAMBDA link : \/ _looks_interesting(link.url, link.text)
                                   \/ _is_same_site(url, link.url))

\* ext of the follow loop
Extension(path) ==
    IF Contains(path, <<".">>) THEN Drop(Lower(path), LastIn(path, {"."})) ELSE EmptyStr

\* mutant: the extension is not looked at
Followable_AnyExtension(sub_url) == urlparse(sub_url).scheme \in {S_http, S_https}

\* the follow loop's filter: neither of its two `continue` branches is taken
Followable(sub_url) ==
    \E parsed \in {urlparse(sub_url)} :
        /\ parsed.scheme \in {S_http, S_https}
        /\ Extension(parsed.path) \notin SkippedExtensions

\* mutant: the loop takes the last fetchable candidate first
NextFollowable_Last(cands, i) ==
    Bind({j \in (i + 1)..Len(cands) : Followable(cands[j].url)}, LAMBDA js :
        IF js = {} THEN 0 ELSE CHOOSE j \in js : \A k \in js : j >= k)

\* the next entry of cands after position i that the loop fetches; 0 if none
NextFollowable(cands, i) ==
    Bind({j \in (i + 1)..Len(cands) : Followable(cands[j].url)}, LAMBDA js :
        IF js = {} THEN 0 ELSE CHOOSE j \in js : \A k \in js : j <= k)

\* mutants of the loop guard: the comparison off by one, and no guard at all
BudgetSpent_OffByOne(n, limit) == n > limit

BudgetSpent_Never(n, limit) == FALSE

\* the loop guard `if followed >= max_subpages: break`
BudgetSpent(n, limit) == n >= limit

HomepageEntry(final_url, main_text, links) ==
    [url |-> final_url, title |-> S_Homepage,
     text_preview |-> Take(main_text, HomePreviewLen), links_on_page |-> Len(links)]

SubpageEntry(link, sub_final_url, sub_text) ==
    [url |-> sub_final_url,
     title |-> Bind(Take(link.text, TitleLen), LAMBDA t :
                   IF t # EmptyStr THEN t ELSE sub_final_url),
     text_preview |-> Take(sub_text, SubPreviewLen)]

\* results["interesting_links_found"] = interesting[:30]
ReportedLinks(cands) == Take(cands, InterestingCap)

\* mutant: the outer except records the response's url, not the requested one
SeedFailed_FinalUrl(url, resp) ==
    [NewResults(url) EXCEPT !.errors = <<[url |-> resp.final_url, error |-> ErrorText(resp)]>>]

\* results when the seed stage raises: the outer except records the seed url
SeedFailed(url, resp) ==
    [NewResults(url) EXCEPT !.errors = <<[url |-> url, error |-> ErrorText(resp)]>>]

\* results when the seed stage succeeds, before the follow loop
SeedCrawled(url, resp, links, cands) ==
    [NewResults(url) EXCEPT
        !.pages_crawled = <<HomepageEntry(resp.final_url, _extract_text(resp.html), links)>>,
        !.interesting_links_found = ReportedLinks(cands)]

\* mutant: every attempt counts against the budget, failed or not
FollowedAfter_EveryAttempt(n, resp) == n + 1

\* followed after one attempt: `followed += 1` is the last statement of the try
FollowedAfter(n, resp) == IF Outcome(resp) = "ok" THEN n + 1 ELSE n

\* results after one attempt on link: a pages_crawled entry, or the inner
\* except's errors entry
ResultsAfter(res, link, resp) ==
    IF Outcome(resp) = "ok"
    THEN [res EXCEPT !.pages_crawled =
              Append(@, SubpageEntry(link, resp.final_url, _extract_text(resp.html)))]
    ELSE [res EXCEPT !.errors = Append(@, [url |-> link.url, error |-> ErrorText(resp)])]

\* crawl_source(url, max_subpages) up to the follow loop: coercion of the
\* arguments, the seed fetch (one of resps is what it ends in), extraction,
\* the Homepage entry and the candidate list
CrawlCallOn(rawUrl, rawMax, resps) ==
    /\ pc = "idle"
    /\ \E url \in {_coerce_str(rawUrl)}, n \in {_coerce_int(rawMax, DefaultMaxSubpages)} :
             /\ call' = [url |-> rawUrl, max_subpages |-> rawMax]
             /\ idx' = 0
             /\ followed' = 0
             /\ IF n.raised
                THEN /\ pc' = "raised"
                     /\ max_subpages' = 0
                     /\ results' = NewResults(EmptyStr)
                     /\ all_links' = << >>
                     /\ interesting' = << >>
                     /\ netlog' = << >>
                ELSE \E resp \in resps :
                       /\ max_subpages' = n.v
                       /\ netlog' = <<[url |-> url, outcome |-> Outcome(resp)]>>
                       /\ IF Outcome(resp) = "ok"
                          THEN \E links \in {_extract_links(resp.html, resp.final_url)} :
                               \E cands \in {Interesting(url, links)} :
                                 /\ pc' = "following"
                                 /\ all_links' = links
                                 /\ interesting' = cands
                                 /\ results' = SeedCrawled(url, resp, links, cands)
                          ELSE /\ pc' = "returned"
                               /\ all_links' = << >>
                               /\ interesting' = << >>
                               /\ results' = SeedFailed(url, resp)

CrawlCall ==
    \E rawUrl \in UrlArgs, rawMax \in BudgetArgs :
        CrawlCallOn(rawUrl, rawMax, SeedResponses(_coerce_str(rawUrl)))

\* one iteration of the follow loop that reaches _fetch_page, with the
\* iterations before it that `continue` past a filtered candidate; r is what
\* the request ends in
CrawlFollowOn(r) ==
    /\ pc = "following"
    /\ ~BudgetSpent(followed, max_subpages)
    /\ \E j \in {NextFollowable(interesting, idx)} :
         /\ j # 0
         /\ r \in SubHttp(interesting[j].url)
         /\ \E resp \in {_fetch_page(r)} :
              /\ idx' = j
              /\ netlog' = Append(netlog, [url |-> interesting[j].url,
                                           outcome |-> Outcome(resp)])
              /\ results' = ResultsAfter(results, interesting[j], resp)
              /\ followed' = FollowedAfter(followed, resp)
    /\ UNCHANGED <<pc, call, max_subpages, all_links, interesting>>

CrawlFollow ==
    \E u \in {interesting[j].url : j \in (idx + 1)..Len(interesting)} :
        \E r \in SubHttp(u) : CrawlFollowOn(r)

\* the loop ends (budget spent, or no candidate left to fetch) and
\* crawl_source returns results
CrawlFinish ==
    /\ pc = "following"
    /\ BudgetSpent(followed, max_subpages) \/ NextFollowable(interesting, idx) = 0
    /\ pc' = "returned"
    /\ UNCHANGED <<call, max_subpages, all_links, interesting, results, idx, followed, netlog>>

\* crawl_source has returned results to its caller, or the exception has
\* reached the transport: the call is over and its locals are gone
CrawlReturn ==
    /\ pc \in {"returned", "raised"}
    /\ pc' = "idle"
    /\ call' = [url |-> PyStr(EmptyStr), max_subpages |-> PyNone]
    /\ max_subpages' = 0
    /\ all_links' = << >>
    /\ interesting' = << >>
    /\ results' = NewResults(EmptyStr)
    /\ idx' = 0
    /\ followed' = 0
    /\ netlog' = << >>

\* ------------------------------------------------------ findings store
\* Largest number of findings the store is let grow to.
MaxStored == 2

S_exam == <<"e", "x", "a", "m">>
S_homework == <<"h", "o", "m", "e", "w", "o", "r", "k">>
S_unknown == <<"u", "n", "k", "n", "o", "w", "n">>
S_dash == <<"-">>
S_a == <<"a">>
S_b == <<"b">>
S_t1 == <<"t", "1">>
S_t2 == <<"t", "2">>

\* the value of a key a dict does not have (dict.get's None)
Absent == <<"None">>

\* An element of the submitted sequence: a JSON object (isDict) with its id,
\* type, title and savedAt keys (Absent, or -1 for savedAt, when missing), or
\* anything else (isDict = FALSE).
Finding(id, type, title) ==
    [isDict |-> TRUE, id |-> id, type |-> type, title |-> title, savedAt |-> 0 - 1]

NonDict == [isDict |-> FALSE, id |-> Absent, type |-> Absent, title |-> EmptyStr, savedAt |-> 0 - 1]

\* the items callers submit
Items ==
    {Finding(S_a, S_exam, S_t1), Finding(S_a, S_homework, S_t2),
     Finding(S_b, S_exam, S_t1), Finding(Absent, S_exam, S_t1), NonDict}

\* the lists callers submit: items that carry an id, and non-objects
Batches == UNION {[1..n -> {f \in Items : f.id # Absent \/ ~f.isDict}] : n \in 0..MaxBatch}

\* The findings argument: a str (enc = "str") holding JSON text that is
\* malformed (valid = FALSE) or encodes value, or a Python object (enc = "obj")
\* that is value. value is a list (kind = "list", items), a single object
\* (kind = "dict", items[1]) or something else (kind = "other").
FindingsArg(enc, valid, kind, items) ==
    [enc |-> enc, valid |-> valid, kind |-> kind, items |-> items]

FindingsArgs ==
    {FindingsArg("obj", TRUE, "list", b) : b \in Batches}
        \cup {FindingsArg("str", TRUE, "list", b) : b \in {c \in Batches : Len(c) <= 1}}
        \cup {FindingsArg(e, TRUE, "dict", <<f>>) :
                 e \in {"str", "obj"}, f \in {g \in Items : g.isDict}}
        \cup {FindingsArg(e, TRUE, "other", << >>) : e \in {"str", "obj"}}
        \cup {FindingsArg("str", FALSE, "other", << >>)}

\* _read_cache() when findings_cache.json does not exist
EmptyCache == [findings |-> << >>, crawlLog |-> << >>, lastUpdated |-> 0 - 1]

\* mutant: the file is rewritten with the one key alone
_update_cache_OneKey(c, key, data, t) ==
    IF key = "findings" THEN [EmptyCache EXCEPT !.findings = data, !.lastUpdated = t]
    ELSE [EmptyCache EXCEPT !.crawlLog = data, !.lastUpdated = t]

\* _update_cache(key, data) at time t, applied to the cache c it reads
_update_cache(c, key, data, t) ==
    IF key = "findings" THEN [c EXCEPT !.findings = data, !.lastUpdated = t]
    ELSE [c EXCEPT !.crawlLog = data, !.lastUpdated = t]

Pad2(n) == <<DigitChar[(n \div 10) + 1], DigitChar[(n % 10) + 1]>>

\* datetime.now().strftime('%H%M%S'), the clock counting seconds
HHMMSS(t) ==
    LET s == t % 86400
    IN  Pad2(s \div 3600) \o Pad2((s % 3600) \div 60) \o Pad2(s % 60)

\* the id save_findings gives item i (0-based) that has none
SynthId(f, existingLen, i, t) ==
    (IF f.type = Absent THEN S_unknown ELSE f.type)
        \o S_dash \o NatToStr(existingLen + i) \o S_dash \o HHMMSS(t)

\* the metadata loop of save_findings
Stamp(findings, existing, t) ==
    [i \in 1..Len(findings) |->
        IF ~findings[i].isDict THEN findings[i]
        ELSE [findings[i] EXCEPT
                !.savedAt = t,
                !.id = IF @ = Absent THEN SynthId(findings[i], Len(existing), i - 1, t)
                       ELSE @]]

\* mutant: the non-objects of the batch are kept
ValidItems_KeepAll(findings) == findings

\* findings = [f for f in findings if isinstance(f, dict)]
ValidItems(findings) == SelectSeq(findings, LAMBDA f : f.isDict)

\* mutants of the merge: nothing is replaced, and the new findings come first
Merge_AppendOnly(existing, findings) == existing \o findings

Merge_NewFirst(existing, findings) ==
    LET new_ids == {findings[i].id : i \in 1..Len(findings)}
    IN  findings \o SelectSeq(existing, LAMBDA f : f.id \notin new_ids)

\* merged: existing findings whose id is not among the new ones, then the new ones
Merge(existing, findings) ==
    LET new_ids == {findings[i].id : i \in 1..Len(findings)}
    IN  SelectSeq(existing, LAMBDA f : f.id \notin new_ids) \o findings

\* the list save_findings works on after json.loads and the isinstance checks
CoerceFindings(arg) ==
    CASE arg.kind = "list" -> arg.items
      [] arg.kind = "dict" -> arg.items
      [] OTHER -> << >>

NoReturn == [kind |-> "none", saved |-> 0, total |-> 0, findings |-> << >>]

\* mutant: the malformed-argument return also rewrites the cache file
save_findings_WritesOnError(arg) ==
    /\ lastCall' = [op |-> "save_findings", findings |-> CoerceFindings(arg)]
    /\ before' = cache.findings
    /\ ret' = [NoReturn EXCEPT !.kind = IF arg.enc = "str" /\ ~arg.valid THEN "error" ELSE "saved"]
    /\ cache' = _update_cache(cache, "findings", cache.findings, now)
    /\ UNCHANGED now

\* save_findings(findings)
save_findings(arg) ==
    /\ lastCall' = [op |-> "save_findings", findings |-> CoerceFindings(arg)]
    /\ before' = cache.findings
    /\ IF arg.enc = "str" /\ ~arg.valid
       THEN /\ ret' = [NoReturn EXCEPT !.kind = "error"]
            /\ cache' = cache
       ELSE LET existing == cache.findings
                findings == ValidItems(Stamp(CoerceFindings(arg), existing, now))
                merged   == Merge(existing, findings)
            IN  /\ Len(merged) <= MaxStored
                /\ cache' = _update_cache(cache, "findings", merged, now)
                /\ ret' = [NoReturn EXCEPT !.kind = "saved", !.saved = Len(findings),
                                           !.total = Len(merged)]
    /\ UNCHANGED now

\* the finding_type arguments of list_findings
TypeArgs == {PyStr(EmptyStr), PyStr(S_exam), PyStr(S_homework),
             PyDict(<<[k |-> "value", p |-> PyStr(S_exam)]>>)}

\* mutant: every argument counts as empty
Truthy_Never(val) == FALSE

\* `if finding_type`: the truth value of the argument
Truthy(val) ==
    CASE val.t = "str" -> val.s # EmptyStr
      [] val.t = "int" -> val.n # 0
      [] val.t = "dict" -> val.d # << >>
      [] OTHER -> FALSE

\* mutant: the refresh writes back the filtered list
list_findings_PersistsSubset(arg) ==
    LET finding_type == IF Truthy(arg) THEN _coerce_str(arg) ELSE EmptyStr
        findings == IF finding_type # EmptyStr
                    THEN SelectSeq(cache.findings, LAMBDA f : f.type = finding_type)
                    ELSE cache.findings
    IN  /\ lastCall' = [op |-> "list_findings", findings |-> << >>]
        /\ before' = cache.findings
        /\ cache' = _update_cache(cache, "findings", findings, now)
        /\ ret' = [NoReturn EXCEPT !.kind = "list", !.findings = findings]
        /\ UNCHANGED now

\* list_findings(finding_type)
list_findings(arg) ==
    LET finding_type == IF Truthy(arg) THEN _coerce_str(arg) ELSE EmptyStr
        findings == IF finding_type # EmptyStr
                    THEN SelectSeq(cache.findings, LAMBDA f : f.type = finding_type)
                    ELSE cache.findings
    IN  /\ lastCall' = [op |-> "list_findings", findings |-> << >>]
        /\ before' = cache.findings
        /\ cache' = _update_cache(cache, "findings", cache.findings, now)
        /\ ret' = [NoReturn EXCEPT !.kind = "list", !.findings = findings]
        /\ UNCHANGED now

\* clear_findings()
clear_findings ==
    /\ lastCall' = [op |-> "clear_findings", findings |-> << >>]
    /\ before' = cache.findings
    /\ cache' = _update_cache(cache, "findings", << >>, now)
    /\ ret' = [NoReturn EXCEPT !.kind = "cleared"]
    /\ UNCHANGED now

\* time passes between two tool calls
Tick ==
    /\ now < MaxTime
    /\ now' = now + 1
    /\ UNCHANGED <<cache, before, lastCall, ret>>

\* ------------------------------------------------------ source registry
\* Largest number of sources the registry is let grow to.
MaxSources == 2

DefaultMaxSubpagesPerSource == 5

S_CS == <<"C", "S">>

\* s.strip(chars)
StripChars(str, cs) ==
    Bind(str, LAMBDA s :
        Bind({i \in 1..Len(s) : s[i] \notin cs}, LAMBDA keep :
            IF keep = {} THEN EmptyStr
            ELSE SubSeq(s, CHOOSE i \in keep : \A j \in keep : i <= j,
                           CHOOSE i \in keep : \A j \in keep : i >= j)))

\* s.replace(".", "-")
DotsToDashes(str) ==
    Bind(str, LAMBDA s : [i \in 1..Len(s) |-> IF s[i] = "." THEN "-" ELSE s[i]])

\* the (url, label) arguments of add_source: one source with a label, one without
SourceUrlArgs == {PyStr(SeedUrl), PyStr(H_w3)}
SourceArgs == {<<PyStr(SeedUrl), PyStr(S_CS)>>, <<PyStr(H_w3), PyStr(EmptyStr)>>}

\* new_link of add_source
NewLink(url, label, links, t) ==
    Bind(urlparse(url), LAMBDA parsed :
        [id |-> DotsToDashes(parsed.netloc) \o S_dash \o NatToStr(Len(links)),
         url |-> url,
         label |-> IF label # EmptyStr THEN label
                   ELSE IF StripChars(parsed.path, {"/"}) # EmptyStr
                        THEN StripChars(parsed.path, {"/"})
                   ELSE parsed.netloc,
         addedAt |-> t])

\* mutant: the duplicate check is left out
add_source_AlwaysAppends(rawUrl, rawLabel) ==
    \E url \in {_coerce_str(rawUrl)},
       label \in {IF Truthy(rawLabel) THEN _coerce_str(rawLabel) ELSE EmptyStr} :
        /\ Len(registry) < MaxSources
        /\ \E links \in {Append(registry, NewLink(url, label, registry, now))} :
             /\ registry' = links
             /\ listed' = links

\* add_source(url, label)
add_source(rawUrl, rawLabel) ==
    \E url \in {_coerce_str(rawUrl)},
       label \in {IF Truthy(rawLabel) THEN _coerce_str(rawLabel) ELSE EmptyStr} :
        IF \E i \in 1..Len(registry) : registry[i].url = url
        THEN /\ registry' = registry
             /\ listed' = registry
        ELSE /\ Len(registry) < MaxSources
             /\ \E links \in {Append(registry, NewLink(url, label, registry, now))} :
                  /\ registry' = links
                  /\ listed' = links

\* remove_source(source_id, url)
remove_source(rawId, rawUrl) ==
    \E source_id \in {IF Truthy(rawId) THEN _coerce_str(rawId) ELSE EmptyStr},
       url \in {IF Truthy(rawUrl) THEN _coerce_str(rawUrl) ELSE EmptyStr} :
        \E links \in {SelectSeq(registry, LAMBDA l : l.id # source_id /\ l.url # url)} :
            /\ registry' = links
            /\ listed' = links

\* the (source_id, url) arguments of remove_source: a registered id, or a url
RemoveArgs ==
    {<<PyStr(registry[i].id), PyStr(EmptyStr)>> : i \in 1..Len(registry)}
        \cup {<<PyStr(EmptyStr), u>> : u \in SourceUrlArgs}

\* the (url, label) arguments of a registry that is edited by hand: two pages
\* of one host, one of them also wrapped in a dict, and another host
RegistryArgs ==
    {<<PyStr(SeedUrl), PyStr(S_CS)>>,
     <<PyDict(<<[k |-> "url", p |-> PyStr(SeedUrl)]>>), PyStr(EmptyStr)>>,
     <<PyStr(U_syllabus), PyStr(EmptyStr)>>,
     <<PyStr(H_w3), PyStr(EmptyStr)>>}

\* the (source_id, url) arguments of remove_source there
RegistryRemoveArgs ==
    {<<PyStr(registry[i].id), PyStr(EmptyStr)>> : i \in 1..Len(registry)}
        \cup {<<PyStr(EmptyStr), a[1]>> : a \in RegistryArgs}

\* ------------------------------------------- concurrent save_findings
\* save_findings takes no lock: a call that runs beside another one does its
\* _read_cache, and later its _update_cache, wherever the other call is.
Savers == {1, 2}

IdleSaver == [pc |-> "idle", findings |-> << >>, merged |-> << >>]

\* the batches the concurrent callers submit
RaceArgs ==
    {FindingsArg("obj", TRUE, "list", <<f>>) :
        f \in {Finding(S_a, S_exam, S_t1), Finding(S_a, S_homework, S_t2),
               Finding(S_b, S_exam, S_t1)}}

\* save_findings of caller p up to its merge: the argument is coerced, the
\* cache is read, the items are stamped and merged is built
SaveMerge(p, arg) ==
    /\ saver[p].pc = "idle"
    /\ \E findings \in {ValidItems(Stamp(CoerceFindings(arg), cache.findings, now))} :
         \E merged \in {Merge(cache.findings, findings)} :
             /\ Len(merged) <= MaxStored
             /\ saver' = [saver EXCEPT ![p] = [pc |-> "merged", findings |-> findings,
                                               merged |-> merged]]
    /\ UNCHANGED <<cache, now>>

\* save_findings of caller p from _update_cache("findings", merged) to its return
SaveWrite(p) ==
    /\ saver[p].pc = "merged"
    /\ cache' = _update_cache(cache, "findings", saver[p].merged, now)
    /\ saver' = [saver EXCEPT ![p].pc = "done"]
    /\ UNCHANGED now

\* caller p has its return value: the call is over
SaveReturn(p) ==
    /\ saver[p].pc = "done"
    /\ saver' = [saver EXCEPT ![p] = IdleSaver]
    /\ UNCHANGED <<cache, now>>

\* --------------------------------------------------- crawl_all_sources
\* what the seed fetch of a swept source can end in
SweepPages == {Html(<<A_syllabus>>, FALSE)}

SweepResponses(url) == {FetchError} \cup {FetchOk(h, url) : h \in SweepPages}

\* The results the follow loop of crawl_source can end with, from the
\* candidate after position i on, with n sub-pages followed so far.
RECURSIVE FollowLoop(_, _, _, _, _)
FollowLoop(cands, i, n, limit, res) ==
    IF BudgetSpent(n, limit) THEN {res}
    ELSE UNION {IF j = 0 THEN {res}
                ELSE UNION {FollowLoop(cands, j, st.n, limit, st.res) :
                              st \in {[n |-> FollowedAfter(n, resp),
                                      res |-> ResultsAfter(res, cands[j], resp)] :
                                         resp \in SubResponses(cands[j].url)}} :
                  j \in {NextFollowable(cands, i)}}

\* The results crawl_source(url, max_subpages) can return, one for each way
\* its fetches can end; none when the coercion of max_subpages raises.
crawl_source(rawUrl, rawMax) ==
    UNION {IF n.raised THEN {}
           ELSE UNION {IF Outcome(resp) # "ok" THEN {SeedFailed(url, resp)}
                       ELSE UNION {UNION {FollowLoop(cands, 0, 0, n.v,
                                                     SeedCrawled(url, resp, links, cands)) :
                                             cands \in {Interesting(url, links)}} :
                                      links \in {_extract_links(resp.html, resp.final_url)}} :
                         resp \in SweepResponses(url)} :
             url \in {_coerce_str(rawUrl)},
             n \in {_coerce_int(rawMax, DefaultMaxSubpages)}}

\* the max_subpages_per_source arguments the transport delivers
SweepArgs ==
    {PyInt(0), PyNone, PyDict(<<[k |-> "value", p |-> PyStr(S_abc)]>>)}

\* mutant: the result is attributed to the url it was crawled from
Attributed_ByUrl(result, link) ==
    [source_url |-> result.source_url, pages_crawled |-> result.pages_crawled,
     interesting_links_found |-> result.interesting_links_found,
     errors |-> result.errors, source_label |-> result.source_url, source_id |-> link.url]

\* result of the sweep's loop body: crawl_source's result with the source's
\* label and id
Attributed(result, link) ==
    [source_url |-> result.source_url, pages_crawled |-> result.pages_crawled,
     interesting_links_found |-> result.interesting_links_found,
     errors |-> result.errors, source_label |-> link.label, source_id |-> link.id]

\* mutant: only the first result's pages are counted
TotalPages_First(rs) == IF rs = << >> THEN 0 ELSE Len(rs[1].pages_crawled)

\* sum(len(r["pages_crawled"]) for r in all_results)
RECURSIVE TotalPages(_)
TotalPages(rs) ==
    IF rs = << >> THEN 0
    ELSE Len(rs[Len(rs)].pages_crawled) + TotalPages(SubSeq(rs, 1, Len(rs) - 1))

NoSweepRet == [sources_crawled |-> 0 - 1, results |-> << >>]

\* crawl_all_sources up to its loop: the coercion and the one _read_links
SweepCall ==
    /\ spc = "idle"
    /\ \E raw \in SweepArgs :
         \E n \in {_coerce_int(raw, DefaultMaxSubpagesPerSource)} :
             IF n.raised
             THEN /\ spc' = "raised"
                  /\ UNCHANGED <<sweep_links, max_subpages_per_source>>
             ELSE /\ spc' = "sweeping"
                  /\ sweep_links' = registry
                  /\ max_subpages_per_source' = n.v
    /\ all_results' = << >>
    /\ UNCHANGED <<registry, listed, sweepRet, cache>>

\* mutant: the loop reads the registry again at every iteration
SweepCrawl_LiveRegistry ==
    /\ spc = "sweeping"
    /\ Len(all_results) < Len(sweep_links)
    /\ Len(all_results) < Len(registry)
    /\ \E link \in {registry[Len(all_results) + 1]} :
         \E result \in crawl_source(PyStr(link.url), PyInt(max_subpages_per_source)) :
             all_results' = Append(all_results, Attributed(result, link))
    /\ UNCHANGED <<registry, listed, spc, sweep_links, max_subpages_per_source, sweepRet, cache>>

\* one iteration of the sweep's loop: the crawl of the next source
SweepCrawl ==
    /\ spc = "sweeping"
    /\ Len(all_results) < Len(sweep_links)
    /\ \E link \in {sweep_links[Len(all_results) + 1]} :
         \E result \in crawl_source(PyStr(link.url), PyInt(max_subpages_per_source)) :
             all_results' = Append(all_results, Attributed(result, link))
    /\ UNCHANGED <<registry, listed, spc, sweep_links, max_subpages_per_source, sweepRet, cache>>

\* mutant: the crawl log is written into a fresh cache file
SweepLog_FreshFile ==
    /\ spc = "sweeping"
    /\ Len(all_results) = Len(sweep_links)
    /\ cache' = _update_cache(EmptyCache, "crawlLog",
                              <<[timestamp |-> now,
                                 sources_crawled |-> Len(sweep_links),
                                 total_pages |-> TotalPages(all_results)]>>, now)
    /\ sweepRet' = [sources_crawled |-> Len(all_results), results |-> all_results]
    /\ spc' = "returned"
    /\ UNCHANGED <<registry, listed, sweep_links, all_results, max_subpages_per_source>>

\* the loop is over: the crawl log is written and crawl_all_sources returns
SweepLog ==
    /\ spc = "sweeping"
    /\ Len(all_results) = Len(sweep_links)
    /\ cache' = _update_cache(cache, "crawlLog",
                              <<[timestamp |-> now,
                                 sources_crawled |-> Len(sweep_links),
                                 total_pages |-> TotalPages(all_results)]>>, now)
    /\ sweepRet' = [sources_crawled |-> Len(all_results), results |-> all_results]
    /\ spc' = "returned"
    /\ UNCHANGED <<registry, listed, sweep_links, all_results, max_subpages_per_source>>

\* the caller has the return value, or the exception has reached the
\* transport: the call is over and its locals are gone
SweepReturn ==
    /\ spc \in {"returned", "raised"}
    /\ spc' = "idle"
    /\ sweep_links' = << >>
    /\ all_results' = << >>
    /\ max_subpages_per_source' = 0
    /\ sweepRet' = NoSweepRet
    /\ UNCHANGED <<registry, listed, cache>>

\* ------------------------------------------------------- fetch_page
\* the caps of fetch_page: characters of text and links returned
TextCap == 15000

LinksCap == 50

TruncationMarker == <<"\n", "\n", ".", ".", ".", " ", "(", "t", "r", "u", "n", "c", "a", "t", "e", "d", ",", " ", "p", "a", "g", "e", " ", "h", "a", "s", " ", "m", "o", "r", "e", " ", "c", "o", "n", "t", "e", "n", "t", ")">>

\* texts of exactly TextCap characters, and of one more
CapText == [i \in 1..TextCap |-> "x"]

LongText == [i \in 1..(TextCap + 1) |-> "x"]

\* a page of LinksCap + 1 links and TextCap + 1 characters of text
ManyLinksPage ==
    [anchors |-> [i \in 1..(LinksCap + 1) |-> Anchor(S_z \o NatToStr(i), T_zip)],
     text |-> LongText, rejected |-> FALSE]

\* a page whose anchors repeat an address under other spellings and texts,
\* among anchors that lead nowhere
RepeatsPage ==
    Html(<<Anchor(EmptyStr, T_home),
           A_syllabus,
           Anchor(<<"#", "t", "o", "p">>, T_home),
           Anchor(<<" ", "/", "s", "y", "l", "l", "a", "b", "u", "s", ".", "h", "t", "m", "l", " ">>, T_external),
           Anchor(<<"j", "a", "v", "a", "s", "c", "r", "i", "p", "t", ":", "v", "o", "i", "d", "(", "0", ")">>, T_w3),
           A_home,
           Anchor(<<"s", "y", "l", "l", "a", "b", "u", "s", ".", "h", "t", "m", "l">>, T_zip),
           A_mailto,
           Anchor(<<"/">>, T_ftp)>>, FALSE)

\* the documents fetch_page is pointed at
FetchDocs == SeedPages \cup {ManyLinksPage, RepeatsPage, PlainDoc(CapText), PlainDoc(LongText)}

\* what the request of fetch_page can end in
FetchHttp(url) ==
    {NoResponse(url),
     Http("ok", 404, CT_html, Html(<< >>, FALSE), url),
     Http("ok", 200, CT_pdf, Html(<< >>, FALSE), url)}
        \cup {Http("ok", 200, CT_html, d, f) : d \in FetchDocs, f \in {url, RedirectUrl, U_syllabus}}
        \cup {Http("ok", 200, CT_plain, PlainDoc(S_body), url)}

\* the url arguments the transport delivers to fetch_page
FetchUrlArgs == UrlArgs \cup {PyStr(H_w3)}

\* no fetch_page call is in progress
NoFetched == [arg |-> PyNone, http |-> NoResponse(EmptyStr), ret |-> [kind |-> "none"]]

\* mutant: the marker is appended from TextCap characters on
Truncated_FromCap(text) ==
    IF Len(text) >= TextCap THEN Take(text, TextCap) \o TruncationMarker ELSE text

\* the text fetch_page returns for the extracted text
Truncated(text) ==
    IF Len(text) > TextCap THEN Take(text, TextCap) \o TruncationMarker ELSE text

\* fetch_page(url), r being what its request ends in. fetched keeps the
\* argument and r beside the result dict (ret; a key the dict does not have
\* is -1).
fetch_page(rawUrl, r) ==
    \E url \in {_coerce_str(rawUrl)} :
        /\ fetched = NoFetched
        /\ r \in FetchHttp(url)
        /\ \E resp \in {_fetch_page(r)} :
             IF Outcome(resp) # "ok"
             THEN fetched' = [arg |-> rawUrl, http |-> r,
                              ret |-> [kind |-> "error", url |-> url, error |-> ErrorText(resp),
                                       text |-> EmptyStr, links |-> << >>,
                                       text_length |-> 0 - 1, links_count |-> 0 - 1]]
             ELSE \E text \in {Truncated(_extract_text(resp.html))},
                     links \in {_extract_links(resp.html, resp.final_url)} :
                      fetched' = [arg |-> rawUrl, http |-> r,
                                  ret |-> [kind |-> "page", url |-> resp.final_url, error |-> "",
                                           text |-> text, links |-> Take(links, LinksCap),
                                           text_length |-> Len(text), links_count |-> Len(links)]]

\* the caller has the return value: the call is over
FetchReturn ==
    /\ fetched # NoFetched
    /\ fetched' = NoFetched

\* --------------------------------------- list_findings beside the writers
\* list_findings takes no lock either: between its _read_cache and its
\* _update_cache the other tools run. The locals of the call: the findings of
\* the cache it read, and the list it is going to return.
IdleLister == [pc |-> "idle", stored |-> << >>, findings |-> << >>]

\* list_findings(finding_type) up to its filter: the cache is read
ListRead(arg) ==
    /\ lister.pc = "idle"
    /\ \E finding_type \in {IF Truthy(arg) THEN _coerce_str(arg) ELSE EmptyStr} :
         lister' = [pc |-> "read", stored |-> cache.findings,
                    findings |-> IF finding_type # EmptyStr
                                 THEN SelectSeq(cache.findings, LAMBDA f : f.type = finding_type)
                                 ELSE cache.findings]
    /\ UNCHANGED <<cache, now>>

\* list_findings from _update_cache("findings", cache.get("findings", [])) on:
\* the findings it read are written into the cache as it is now
ListWrite ==
    /\ lister.pc = "read"
    /\ cache' = _update_cache(cache, "findings", lister.stored, now)
    /\ lister' = [lister EXCEPT !.pc = "done"]
    /\ UNCHANGED now

\* the caller has the list: the call is over
ListReturn ==
    /\ lister.pc = "done"
    /\ lister' = IdleLister
    /\ UNCHANGED <<cache, now>>

\* ------------------------------------------------------- specifications
Init ==
    /\ pc = "idle"
    /\ call = [url |-> PyStr(EmptyStr), max_subpages |-> PyNone]
    /\ max_subpages = 0
    /\ all_links = << >>
    /\ interesting = << >>
    /\ results = NewResults(EmptyStr)
    /\ idx = 0
    /\ followed = 0
    /\ netlog = << >>
    /\ cache = EmptyCache
    /\ now = 0
    /\ before = << >>
    /\ lastCall = [op |-> "none", findings |-> << >>]
    /\ ret = NoReturn
    /\ registry = << >>
    /\ spc = "idle"
    /\ sweep_links = << >>
    /\ all_results = << >>
    /\ max_subpages_per_source = 0
    /\ sweepRet = NoSweepRet
    /\ saver = [p \in Savers |-> IdleSaver]
    /\ lister = IdleLister
    /\ fetched = NoFetched
    /\ listed = << >>

\* the crawl engine: calls of crawl_source, one after another
NextCrawl ==
    \/ CrawlCall /\ UNCHANGED <<storeVars, sweepVars, saver, lister, fetched>>
    \/ CrawlFollow /\ UNCHANGED <<storeVars, sweepVars, saver, lister, fetched>>
    \/ CrawlFinish /\ UNCHANGED <<storeVars, sweepVars, saver, lister, fetched>>
    \/ CrawlReturn /\ UNCHANGED <<storeVars, sweepVars, saver, lister, fetched>>

SpecCrawl == Init /\ [][NextCrawl]_vars

\* the page tool: calls of fetch_page, one after another
NextFetch ==
    \/ \E rawUrl \in FetchUrlArgs :
          \E r \in FetchHttp(_coerce_str(rawUrl)) :
              fetch_page(rawUrl, r)
                /\ UNCHANGED <<crawlVars, storeVars, sweepVars, saver, lister>>
    \/ FetchReturn /\ UNCHANGED <<crawlVars, storeVars, sweepVars, saver, lister>>

SpecFetch == Init /\ [][NextFetch]_vars

\* the findings store: calls of its three tools, one after another
NextStore ==
    \/ (\E arg \in FindingsArgs : save_findings(arg)) /\ UNCHANGED <<crawlVars, sweepVars, saver, lister, fetched>>
    \/ (\E arg \in TypeArgs : list_findings(arg)) /\ UNCHANGED <<crawlVars, sweepVars, saver, lister, fetched>>
    \/ clear_findings /\ UNCHANGED <<crawlVars, sweepVars, saver, lister, fetched>>
    \/ Tick /\ UNCHANGED <<crawlVars, sweepVars, saver, lister, fetched>>

SpecStore == Init /\ [][NextStore]_vars

\* the registry and the sweep: sources come and go while sweeps run
NextSweep ==
    \/ (\E a \in SourceArgs : add_source(a[1], a[2]))
          /\ UNCHANGED <<crawlVars, storeVars, saver, lister, fetched, spc, sweep_links, all_results,
                         max_subpages_per_source, sweepRet>>
    \/ (\E a \in RemoveArgs : remove_source(a[1], a[2]))
          /\ UNCHANGED <<crawlVars, storeVars, saver, lister, fetched, spc, sweep_links, all_results,
                         max_subpages_per_source, sweepRet>>
    \/ SweepCall /\ UNCHANGED <<crawlVars, now, before, lastCall, ret, saver, lister, fetched>>
    \/ SweepCrawl /\ UNCHANGED <<crawlVars, now, before, lastCall, ret, saver, lister, fetched>>
    \/ SweepLog /\ UNCHANGED <<crawlVars, now, before, lastCall, ret, saver, lister, fetched>>
    \/ SweepReturn /\ UNCHANGED <<crawlVars, now, before, lastCall, ret, saver, lister, fetched>>
    \/ Tick /\ UNCHANGED <<crawlVars, sweepVars, saver, lister, fetched>>

SpecSweep == Init /\ [][NextSweep]_vars

\* the registry alone: sources are added and removed, one call after another
NextRegistry ==
    \/ (\E a \in RegistryArgs : add_source(a[1], a[2]))
          /\ UNCHANGED <<crawlVars, storeVars, saver, lister, fetched, spc, sweep_links,
                         all_results, max_subpages_per_source, sweepRet>>
    \/ (\E a \in RegistryRemoveArgs : remove_source(a[1], a[2]))
          /\ UNCHANGED <<crawlVars, storeVars, saver, lister, fetched, spc, sweep_links,
                         all_results, max_subpages_per_source, sweepRet>>
    \/ Tick /\ UNCHANGED <<crawlVars, sweepVars, saver, lister, fetched>>

SpecRegistry == Init /\ [][NextRegistry]_vars

\* the findings_cache.json arguments of a server no source is registered with
CacheArgs ==
    {FindingsArg("obj", TRUE, "dict", <<f>>) :
        f \in {Finding(S_a, S_homework, S_t2), Finding(S_b, S_exam, S_t1)}}
        \cup {FindingsArg("str", FALSE, "other", << >>)}

\* findings_cache.json: the findings tools and the sweeps of a server that has
\* no source registered, whose loop has nothing to iterate over
NextCache ==
    \/ (\E arg \in CacheArgs : save_findings(arg)) /\ UNCHANGED <<crawlVars, sweepVars, saver, lister, fetched>>
    \/ (\E arg \in TypeArgs : list_findings(arg)) /\ UNCHANGED <<crawlVars, sweepVars, saver, lister, fetched>>
    \/ clear_findings /\ UNCHANGED <<crawlVars, sweepVars, saver, lister, fetched>>
    \/ SweepCall /\ UNCHANGED <<crawlVars, now, before, lastCall, ret, saver, lister, fetched>>
    \/ SweepLog /\ UNCHANGED <<crawlVars, now, before, lastCall, ret, saver, lister, fetched>>
    \/ SweepReturn /\ UNCHANGED <<crawlVars, now, before, lastCall, ret, saver, lister, fetched>>
    \/ Tick /\ UNCHANGED <<crawlVars, sweepVars, saver, lister, fetched>>

SpecCache == Init /\ [][NextCache]_vars

\* no crawl_source, crawl_all_sources or fetch_page call is in progress
Quiet == pc = "idle" /\ spc = "idle" /\ fetched = NoFetched

\* what the request of fetch_page ends in on the server as a whole
ServerHttp(url) ==
    {NoResponse(url)} \cup {Http("ok", 200, CT_html, h, url) : h \in SweepPages}

\* the findings saved on the server as a whole
ServerSaveArgs == {FindingsArg("obj", TRUE, "dict", <<Finding(S_b, S_exam, S_t1)>>)}

\* The server as a whole: every tool, one call after another, on one course
\* page.
NextServer ==
    \/ Quiet /\ add_source(PyStr(SeedUrl), PyStr(S_CS))
          /\ UNCHANGED <<crawlVars, storeVars, saver, lister, fetched, spc, sweep_links,
                         all_results, max_subpages_per_source, sweepRet>>
    \/ Quiet /\ remove_source(PyStr(EmptyStr), PyStr(SeedUrl))
          /\ UNCHANGED <<crawlVars, storeVars, saver, lister, fetched, spc, sweep_links,
                         all_results, max_subpages_per_source, sweepRet>>
    \/ Quiet /\ CrawlCallOn(PyStr(SeedUrl), PyInt(1), SweepResponses(SeedUrl))
          /\ UNCHANGED <<storeVars, sweepVars, saver, lister, fetched>>
    \/ CrawlFollow /\ UNCHANGED <<storeVars, sweepVars, saver, lister, fetched>>
    \/ CrawlFinish /\ UNCHANGED <<storeVars, sweepVars, saver, lister, fetched>>
    \/ CrawlReturn /\ UNCHANGED <<storeVars, sweepVars, saver, lister, fetched>>
    \/ Quiet /\ (\E r \in ServerHttp(SeedUrl) : fetch_page(PyStr(SeedUrl), r))
          /\ UNCHANGED <<crawlVars, storeVars, sweepVars, saver, lister>>
    \/ FetchReturn /\ UNCHANGED <<crawlVars, storeVars, sweepVars, saver, lister>>
    \/ Quiet /\ SweepCall /\ UNCHANGED <<crawlVars, now, before, lastCall, ret, saver, lister, fetched>>
    \/ SweepCrawl /\ UNCHANGED <<crawlVars, now, before, lastCall, ret, saver, lister, fetched>>
    \/ SweepLog /\ UNCHANGED <<crawlVars, now, before, lastCall, ret, saver, lister, fetched>>
    \/ SweepReturn /\ UNCHANGED <<crawlVars, now, before, lastCall, ret, saver, lister, fetched>>
    \/ Quiet /\ (\E arg \in ServerSaveArgs : save_findings(arg))
          /\ UNCHANGED <<crawlVars, sweepVars, saver, lister, fetched>>
    \/ Quiet /\ list_findings(PyStr(EmptyStr))
          /\ UNCHANGED <<crawlVars, sweepVars, saver, lister, fetched>>
    \/ Quiet /\ clear_findings /\ UNCHANGED <<crawlVars, sweepVars, saver, lister, fetched>>
    \/ Quiet /\ Tick /\ UNCHANGED <<crawlVars, sweepVars, saver, lister, fetched>>

SpecServer == Init /\ [][NextServer]_vars

\* the findings arguments of callers that leave the id to the server: a list
\* of one identified finding, lists that hold a finding without id, and a
\* single object without id
SynthArgs ==
    {FindingsArg("obj", TRUE, "list", <<Finding(S_a, S_exam, S_t1)>>),
     FindingsArg("obj", TRUE, "list", <<Finding(S_a, S_exam, S_t1), Finding(Absent, S_exam, S_t2)>>),
     FindingsArg("obj", TRUE, "list", <<NonDict, Finding(Absent, S_homework, S_t2)>>),
     FindingsArg("obj", TRUE, "dict", <<Finding(Absent, S_exam, S_t1)>>),
     FindingsArg("obj", TRUE, "dict", <<Finding(Absent, S_homework, S_t1)>>)}

\* the findings store fed by such callers
NextSynth ==
    \/ (\E arg \in SynthArgs : save_findings(arg))
          /\ UNCHANGED <<crawlVars, sweepVars, saver, lister, fetched>>
    \/ clear_findings /\ UNCHANGED <<crawlVars, sweepVars, saver, lister, fetched>>
    \/ Tick /\ UNCHANGED <<crawlVars, sweepVars, saver, lister, fetched>>

SpecSynth == Init /\ [][NextSynth]_vars

\* a list_findings call beside save_findings and clear_findings calls
NextListRace ==
    \/ (\E arg \in TypeArgs : ListRead(arg))
          /\ UNCHANGED <<crawlVars, sweepVars, before, lastCall, ret, saver, fetched>>
    \/ ListWrite /\ UNCHANGED <<crawlVars, sweepVars, before, lastCall, ret, saver, fetched>>
    \/ ListReturn /\ UNCHANGED <<crawlVars, sweepVars, before, lastCall, ret, saver, fetched>>
    \/ (\E arg \in CacheArgs : save_findings(arg))
          /\ UNCHANGED <<crawlVars, sweepVars, saver, lister, fetched>>
    \/ clear_findings /\ UNCHANGED <<crawlVars, sweepVars, saver, lister, fetched>>
    \/ Tick /\ UNCHANGED <<crawlVars, sweepVars, saver, lister, fetched>>

SpecListRace == Init /\ [][NextListRace]_vars

\* save_findings calls of two callers, side by side
NextRace ==
    \/ (\E p \in Savers, arg \in RaceArgs : SaveMerge(p, arg))
          /\ UNCHANGED <<crawlVars, sweepVars, before, lastCall, ret, lister, fetched>>
    \/ (\E p \in Savers : SaveWrite(p))
          /\ UNCHANGED <<crawlVars, sweepVars, before, lastCall, ret, lister, fetched>>
    \/ (\E p \in Savers : SaveReturn(p))
          /\ UNCHANGED <<crawlVars, sweepVars, before, lastCall, ret, lister, fetched>>
    \/ Tick /\ UNCHANGED <<crawlVars, sweepVars, saver, lister, fetched>>

SpecRace == Init /\ [][NextRace]_vars

\* =================================================== properties: the crawl
\* the seed url crawl_source works on
SeedOf == _coerce_str(call.url)

\* crawl_source is past the seed stage of a call whose arguments coerced
Running == pc \in {"following", "returned"}

\* the seed stage succeeded: the Homepage entry exists and the loop runs
SeedOk == Running /\ netlog[1].outcome = "ok"

OkCount(log) == Cardinality({i \in 1..Len(log) : log[i].outcome = "ok"})

FailCount(log) == Cardinality({i \in 1..Len(log) : log[i].outcome # "ok"})

\* the failed attempts on sub-pages
SubFailures == Cardinality({i \in 2..Len(netlog) : netlog[i].outcome # "ok"})

\* how many members of S are <= j
Rank(S, j) == Cardinality({k \in S : k <= j})

\* C1: for a page budget N >= 0, one crawl_source call performs at most 1 + N
\* successful fetches: pages_crawled never holds more than 1 + N entries (the
\* homepage and at most N followed sub-pages), whatever the candidates are.
C1_PageBudget ==
    (Running /\ max_subpages >= 0) =>
        /\ Len(results.pages_crawled) <= 1 + max_subpages
        /\ OkCount(netlog) <= 1 + max_subpages

\* the budget of 1 is used up while a fetchable candidate is still waiting
C1_Witness ==
    /\ pc = "returned"
    /\ max_subpages = 1
    /\ Len(results.pages_crawled) = 2
    /\ NextFollowable(interesting, idx) # 0

\* C2 as stated: the network calls of one crawl_source call, successful or
\* failed, number at most 1 + max_subpages.
C2_Original ==
    (Running /\ max_subpages >= 0) => Len(netlog) <= 1 + max_subpages

\* C2, amended: the network calls of one crawl_source call number at most
\* 1 + max_subpages + the failed sub-page attempts (max_subpages >= 0), and
\* never more than 1 + the number of candidates.
C2_NetworkCalls ==
    Running =>
        /\ max_subpages >= 0 => Len(netlog) <= 1 + max_subpages + SubFailures
        /\ Len(netlog) <= 1 + Len(interesting)

\* a call that made more than 1 + max_subpages requests
C2_Witness ==
    /\ pc = "returned"
    /\ max_subpages >= 0
    /\ SubFailures > 0
    /\ Len(netlog) > 1 + max_subpages

\* C3: crawl_source never raises past its boundary: it returns a result with
\* source_url, pages_crawled, interesting_links_found and errors, and every
\* failed attempt appears in errors.
C3_NeverRaises ==
    /\ pc # "raised"
    /\ pc = "returned" =>
          /\ DOMAIN results = {"source_url", "pages_crawled", "interesting_links_found", "errors"}
          /\ \A i \in 1..Len(netlog) :
                netlog[i].outcome # "ok" =>
                    \E e \in 1..Len(results.errors) : results.errors[e].url = netlog[i].url

\* C4: when the seed fetch fails crawl_source returns at once: errors holds
\* exactly one entry, for the seed url, pages_crawled and
\* interesting_links_found are empty and no sub-page is requested.
C4_SeedFetchFails ==
    (netlog # << >> /\ netlog[1].outcome = "fetch_error") =>
        /\ pc = "returned"
        /\ Len(results.errors) = 1
        /\ results.errors[1].url = SeedOf
        /\ results.pages_crawled = << >>
        /\ results.interesting_links_found = << >>
        /\ Len(netlog) = 1
        /\ netlog[1].url = SeedOf

C4_Witness == pc = "returned" /\ netlog[1].outcome = "fetch_error"

\* C5, in every state: errors has one entry per failed attempt, pages_crawled
\* one per successful attempt, and a url whose attempt failed is not
\* requested again.
C5_Tally ==
    Running =>
        /\ Len(results.errors) = FailCount(netlog)
        /\ Len(results.pages_crawled) = OkCount(netlog)
        /\ \A i \in 1..Len(netlog) : \A j \in (i + 1)..Len(netlog) :
              netlog[i].outcome # "ok" => netlog[j].url # netlog[i].url

\* C5, in every step: a failed sub-page attempt leaves the crawl in its
\* loop, past the failed candidate, with followed and pages_crawled as they
\* were and one more errors entry, for that candidate's url.
C5_Step ==
    (pc = "following" /\ Len(netlog') = Len(netlog) + 1
        /\ netlog'[Len(netlog')].outcome # "ok") =>
        /\ pc' = "following"
        /\ followed' = followed
        /\ results'.pages_crawled = results.pages_crawled
        /\ Len(results'.errors) = Len(results.errors) + 1
        /\ SubSeq(results'.errors, 1, Len(results.errors)) = results.errors
        /\ results'.errors[Len(results'.errors)].url = netlog'[Len(netlog')].url
        /\ idx' > idx
        /\ interesting[idx'].url = netlog'[Len(netlog')].url

\* C5: a failed sub-page fetch does not abort the crawl and does not consume a
\* budget slot; it is recorded in errors exactly once and the loop goes on.
C5_FailedFollow == [](C5_Tally) /\ [][C5_Step]_vars

\* a sub-page failed, a later one was followed, and the budget was still filled
C5_Witness ==
    /\ pc = "returned"
    /\ followed = max_subpages
    /\ \E i \in 2..Len(netlog) : \E j \in (i + 1)..Len(netlog) :
          netlog[i].outcome # "ok" /\ netlog[j].outcome = "ok"

\* C6: candidates are followed strictly in extraction order: the requests are
\* the fetchable candidates among the first idx, in order; the followed pages
\* are the successful ones, in order; the call returns only with the budget
\* filled or no fetchable candidate left. On the scenario page (Syllabus, Home,
\* external) with budget 1 and no failure, exactly the syllabus is followed and
\* pages_crawled has 2 entries, the first titled Homepage.
C6_ExtractionOrder ==
    SeedOk =>
        LET F == {j \in 1..idx : Followable(interesting[j].url)}
            K == {i \in 2..Len(netlog) : netlog[i].outcome = "ok"}
        IN  /\ Len(netlog) = 1 + Cardinality(F)
            /\ \A j \in F : netlog[1 + Rank(F, j)].url = interesting[j].url
            /\ Len(results.pages_crawled) = 1 + Cardinality(K)
            /\ \A i \in K : results.pages_crawled[1 + Rank(K, i)].url = netlog[i].url
            /\ results.pages_crawled[1].title = S_Homepage
            /\ pc = "returned" =>
                  \/ followed >= max_subpages
                  \/ \A j \in (idx + 1)..Len(interesting) : ~Followable(interesting[j].url)
            /\ (/\ pc = "returned"
                /\ all_links = _extract_links(ScenarioPage, SeedUrl)
                /\ max_subpages = 1
                /\ \A i \in 1..Len(netlog) : netlog[i].outcome = "ok") =>
                  /\ Len(results.pages_crawled) = 2
                  /\ results.pages_crawled[2].url = U_syllabus
                  /\ Len(netlog) = 2

\* the scenario
C6_Witness ==
    /\ pc = "returned"
    /\ all_links = _extract_links(ScenarioPage, SeedUrl)
    /\ Len(interesting) = 3
    /\ max_subpages = 1
    /\ Len(results.pages_crawled) = 2
    /\ results.pages_crawled[2].url = U_syllabus

\* C7: the candidate list holds exactly the extracted links the classifier
\* accepts or whose network location is the seed's, in extraction order;
\* interesting_links_found is its first 30 entries; the follow loop runs over
\* the whole list, so a call that returns with budget left has requested
\* every fetchable candidate, the 31st and later included.
C7_Candidates ==
    SeedOk =>
        LET found == results.interesting_links_found
            pos(l) == CHOOSE i \in 1..Len(all_links) : all_links[i] = l
        IN  /\ \A i \in 1..Len(all_links) :
                  (\E j \in 1..Len(interesting) : interesting[j] = all_links[i])
                    <=> \/ _looks_interesting(all_links[i].url, all_links[i].text)
                        \/ urlparse(all_links[i].url).netloc = urlparse(SeedOf).netloc
            /\ \A j \in 1..Len(interesting) :
                  \E i \in 1..Len(all_links) : all_links[i] = interesting[j]
            /\ \A j \in 1..Len(interesting) : \A k \in (j + 1)..Len(interesting) :
                  pos(interesting[j]) < pos(interesting[k])
            /\ Len(found) = Min(InterestingCap, Len(interesting))
            /\ \A j \in 1..Len(found) : found[j] = interesting[j]
            /\ (pc = "returned" /\ followed < max_subpages) =>
                  \A j \in 1..Len(interesting) :
                      Followable(interesting[j].url) =>
                          \E i \in 2..Len(netlog) : netlog[i].url = interesting[j].url

\* more than 30 candidates, 30 reported, and a followed page beyond the 30th
C7_Witness ==
    /\ pc = "returned"
    /\ Len(interesting) > InterestingCap
    /\ Len(results.interesting_links_found) = InterestingCap
    /\ \E p \in 2..Len(results.pages_crawled) :
          \E j \in (InterestingCap + 1)..Len(interesting) :
              interesting[j].url = results.pages_crawled[p].url

\* ======================================== properties: the findings store
\* the last call was a save_findings that reached the merge
Saved == lastCall.op = "save_findings" /\ ret.kind = "saved"

\* the positions of seq holding a finding with this id
WithId(seq, id) == {i \in 1..Len(seq) : seq[i].id = id}

\* C8: after any sequence of save_findings, list_findings and clear_findings
\* calls from an empty store, the persisted findings hold at most one finding
\* per id, also after a batch in which two items carry the same id.
C8_OneFindingPerId ==
    \A i \in 1..Len(cache.findings) : \A j \in 1..Len(cache.findings) :
        i # j => cache.findings[i].id # cache.findings[j].id

\* C9, in every step: when the previous call saved one finding with id X and
\* this call saves one finding with the same id X, the store then holds exactly
\* one record with id X, with this call's content and savedAt, and as many
\* records as after the previous call.
C9_Step ==
    LET f == lastCall.findings[1]
        g == lastCall'.findings[1]
        hits == WithId(cache'.findings, g.id)
    IN  (/\ Saved
         /\ Len(lastCall.findings) = 1
         /\ f.isDict
         /\ f.id # Absent
         /\ lastCall'.op = "save_findings"
         /\ ret'.kind = "saved"
         /\ now' = now
         /\ before' = cache.findings
         /\ Len(lastCall'.findings) = 1
         /\ g.isDict
         /\ g.id = f.id) =>
            /\ Cardinality(hits) = 1
            /\ \A i \in hits : cache'.findings[i] = [g EXCEPT !.savedAt = now]
            /\ ret'.total = ret.total
            /\ Len(cache'.findings) = Len(cache.findings)

\* C9: save_findings is idempotent under resubmission of an id.
C9_Resubmission == [][C9_Step]_vars

\* a finding was saved again under its id, later and with other content, next
\* to a finding that stayed
C9_Witness ==
    /\ Saved
    /\ Len(lastCall.findings) = 1
    /\ lastCall.findings[1].isDict
    /\ Len(before) = 2
    /\ Len(cache.findings) = 2
    /\ \E i \in 1..Len(before) :
          /\ before[i].id = lastCall.findings[1].id
          /\ before[i].title # lastCall.findings[1].title
          /\ before[i].savedAt < now
    /\ \E i \in 1..Len(cache.findings) :
          /\ cache.findings[i].id = lastCall.findings[1].id
          /\ cache.findings[i].title = lastCall.findings[1].title
          /\ cache.findings[i].savedAt = now

\* C10: after save_findings(batch) on a store holding E the persisted findings
\* are the findings of E whose id does not occur in the batch, unchanged and in
\* their order, followed by the batch's valid items in submission order; no
\* finding of E whose id occurs in the batch is left.
C10_MergeOrder ==
    Saved =>
        LET E     == before
            sub   == lastCall.findings
            D     == {i \in 1..Len(sub) : sub[i].isDict}
            n     == Len(cache.findings)
            k     == Cardinality(D)
            head  == SubSeq(cache.findings, 1, n - k)
            tail  == SubSeq(cache.findings, n - k + 1, n)
            ids   == {tail[j].id : j \in 1..Len(tail)}
            P     == {i \in 1..Len(E) : E[i].id \notin ids}
        IN  /\ k <= n
            /\ \A i \in D :
                  /\ tail[Rank(D, i)].type = sub[i].type
                  /\ tail[Rank(D, i)].title = sub[i].title
                  /\ sub[i].id # Absent => tail[Rank(D, i)].id = sub[i].id
            /\ Len(head) = Cardinality(P)
            /\ \A i \in P : head[Rank(P, i)] = E[i]
            /\ \A j \in 1..Len(head) : head[j].id \notin ids

\* a save that replaced one stored finding and kept another
C10_Witness ==
    /\ Saved
    /\ Len(before) = 2
    /\ Len(cache.findings) = 2
    /\ \E i \in 1..2 : \A j \in 1..2 : cache.findings[j] # before[i]
    /\ cache.findings[1] = before[2]
    /\ \E i \in 1..Len(lastCall.findings) : lastCall.findings[i].isDict

\* ============================================ properties: the findings tools
\* C11: after a save_findings call that saved, saved is the number of objects
\* in the submitted sequence and total the size of the stored collection; the
\* objects of the batch are the last stored items, in batch order, none of the
\* stored items is a non-object, each of them carries the savedAt of the call,
\* an item submitted with an id has kept it and an item submitted without one
\* has an id made of its type, a sequence index and the time.
C11_SaveContract ==
    Saved =>
        LET sub  == lastCall.findings
            D    == {i \in 1..Len(sub) : sub[i].isDict}
            n    == Len(cache.findings)
            k    == Cardinality(D)
            tail == SubSeq(cache.findings, n - k + 1, n)
        IN  /\ ret.saved = k
            /\ ret.total = n
            /\ k <= n
            /\ \A j \in 1..n : cache.findings[j].isDict
            /\ \A i \in D :
                  /\ tail[Rank(D, i)].title = sub[i].title
                  /\ tail[Rank(D, i)].savedAt = cache.lastUpdated
                  /\ tail[Rank(D, i)].savedAt >= 0
                  /\ sub[i].id # Absent => tail[Rank(D, i)].id = sub[i].id
                  /\ sub[i].id = Absent =>
                        /\ tail[Rank(D, i)].id # Absent
                        /\ StartsWith(tail[Rank(D, i)].id, sub[i].type \o S_dash)
                        /\ Len(tail[Rank(D, i)].id) > Len(sub[i].type) + 1

\* a batch of an object and a non-object was saved into a store that holds an
\* item whose id the store made up
C11_Witness ==
    /\ Saved
    /\ Len(lastCall.findings) = 2
    /\ \E i \in 1..2 : ~lastCall.findings[i].isDict
    /\ ret.saved = 1
    /\ ret.total = 2
    /\ StartsWith(cache.findings[1].id, S_exam \o S_dash)

\* C12, in every step: a save_findings call whose argument is a string that is
\* not JSON returns the error object with saved = 0 and leaves the cache as it
\* was: findings, crawlLog and lastUpdated.
C12_Step ==
    \A arg \in CacheArgs :
        (arg.enc = "str" /\ ~arg.valid /\ save_findings(arg)) =>
            /\ ret'.kind = "error"
            /\ ret'.saved = 0
            /\ cache'.findings = cache.findings
            /\ cache'.crawlLog = cache.crawlLog
            /\ cache'.lastUpdated = cache.lastUpdated

C12_MalformedSave == [][C12_Step]_vars

\* the error came back later than the last write, from a store that holds a
\* finding and a crawl log entry
C12_Witness ==
    /\ lastCall.op = "save_findings"
    /\ ret.kind = "error"
    /\ cache.findings # << >>
    /\ cache.crawlLog # << >>
    /\ cache.lastUpdated < now

\* the type a list_findings argument asks for: the string itself, or the
\* string an object wraps
FilterOf(arg) == IF arg.t = "dict" THEN arg.d[1].p.s ELSE arg.s

\* C13, in every step: list_findings with a non-empty filter T returns the
\* stored findings whose type is T, all of them and no other, in stored order;
\* with an empty filter it returns the whole stored collection.
C13_Step ==
    \A arg \in TypeArgs :
        list_findings(arg) =>
            LET T == FilterOf(arg)
                P == {i \in 1..Len(cache.findings) : cache.findings[i].type = T}
            IN  IF T = EmptyStr THEN ret'.findings = cache.findings
                ELSE /\ Len(ret'.findings) = Cardinality(P)
                     /\ \A i \in P : ret'.findings[Rank(P, i)] = cache.findings[i]

C13_TypeFilter == [][C13_Step]_vars

\* a filtered call returned one of two stored findings of different types
C13_Witness ==
    /\ lastCall.op = "list_findings"
    /\ Len(cache.findings) = 2
    /\ cache.findings[1].type # cache.findings[2].type
    /\ Len(ret.findings) = 1
    /\ ret.findings[1] = cache.findings[2]

\* C14, in every step: a list_findings call, filtered or not, leaves the
\* stored findings and the crawl log as they were and sets lastUpdated to the
\* time of the call.
C14_Step ==
    \A arg \in TypeArgs :
        list_findings(arg) =>
            /\ cache'.findings = cache.findings
            /\ cache'.crawlLog = cache.crawlLog
            /\ cache'.lastUpdated = now

C14_ListRefreshes == [][C14_Step]_vars

\* a filtered call returned one of the two stored findings, later than the
\* crawl log was written, and both findings and the log entry are still stored
C14_Witness ==
    /\ lastCall.op = "list_findings"
    /\ Len(ret.findings) = 1
    /\ Len(cache.findings) = 2
    /\ Len(cache.crawlLog) = 1
    /\ cache.crawlLog[1].timestamp < cache.lastUpdated
    /\ cache.lastUpdated = now

\* C15, in every step: clear_findings leaves the stored findings empty and the
\* crawl log as it was, and a list_findings call with no filter that comes
\* next after a clear_findings, with no save in between, returns the empty
\* sequence.
C15_Step ==
    /\ clear_findings => (cache'.findings = << >> /\ cache'.crawlLog = cache.crawlLog)
    /\ (lastCall.op = "clear_findings" /\ list_findings(PyStr(EmptyStr))) =>
           ret'.findings = << >>

C15_ClearFindings == [][C15_Step]_vars

\* findings were cleared from a store that held some, next to a crawl log entry
C15_Witness ==
    /\ lastCall.op = "clear_findings"
    /\ before # << >>
    /\ cache.findings = << >>
    /\ Len(cache.crawlLog) = 1

\* C16: when two save_findings calls with disjoint ids have run side by side
\* and both have completed, the stored collection holds the findings of both
\* batches, however their reads and writes were interleaved.
C16_NoLostUpdate ==
    (/\ \A p \in Savers : saver[p].pc = "done"
     /\ \A i \in 1..Len(saver[1].findings) : \A j \in 1..Len(saver[2].findings) :
            saver[1].findings[i].id # saver[2].findings[j].id) =>
        \A p \in Savers : \A i \in 1..Len(saver[p].findings) :
            \E j \in 1..Len(cache.findings) : cache.findings[j] = saver[p].findings[i]

\* ==================================================== properties: the sweep
\* the result is that of a crawl of the source: of its url, with a Homepage
\* entry or the error of its seed fetch
CrawlOf(result, link) ==
    /\ result.source_url = link.url
    /\ result.source_label = link.label
    /\ result.source_id = link.id
    /\ \/ result.pages_crawled # << >>
       \/ \E e \in 1..Len(result.errors) : result.errors[e].url = link.url

\* C17: a sweep crawls the sources it read one after another, in their order,
\* also after a source whose seed fetch failed: the results gathered so far
\* are those of the first sources, each with its source's label and id, and
\* the sweep returns one result per source with sources_crawled their number.
C17_SweepCoversSources ==
    /\ spc = "sweeping" =>
          /\ Len(all_results) <= Len(sweep_links)
          /\ \A i \in 1..Len(all_results) : CrawlOf(all_results[i], sweep_links[i])
    /\ spc = "returned" =>
          /\ Len(sweepRet.results) = Len(sweep_links)
          /\ sweepRet.sources_crawled = Len(sweep_links)
          /\ \A i \in 1..Len(sweep_links) : CrawlOf(sweepRet.results[i], sweep_links[i])

\* a sweep of two sources returned: the seed fetch of the first failed and the
\* second was crawled
C17_Witness ==
    /\ spc = "returned"
    /\ Len(sweepRet.results) = 2
    /\ sweepRet.results[1].pages_crawled = << >>
    /\ sweepRet.results[1].errors # << >>
    /\ sweepRet.results[2].pages_crawled # << >>
    /\ sweepRet.results[2].source_id # sweepRet.results[1].source_id

\* the pages of a sequence of results, each named by its result and position
PagesOf(rs) == UNION {{<<i, j>> : j \in 1..Len(rs[i].pages_crawled)} : i \in 1..Len(rs)}

\* C18: the crawl log never holds more than one entry, and when a sweep has
\* returned it holds exactly the entry of that sweep: sources_crawled is the
\* number of sources swept and total_pages the number of pages in the
\* pages_crawled lists of the sweep's results.
C18_CrawlLog ==
    /\ Len(cache.crawlLog) <= 1
    /\ spc = "returned" =>
          /\ Len(cache.crawlLog) = 1
          /\ cache.crawlLog[1].sources_crawled = Len(sweepRet.results)
          /\ cache.crawlLog[1].sources_crawled = Len(sweep_links)
          /\ cache.crawlLog[1].total_pages = Cardinality(PagesOf(sweepRet.results))

\* a sweep of two sources returned with three pages, one from the first source
\* and two from the second
C18_Witness ==
    /\ spc = "returned"
    /\ Len(sweepRet.results) = 2
    /\ Len(sweepRet.results[1].pages_crawled) = 1
    /\ Len(sweepRet.results[2].pages_crawled) = 2
    /\ cache.crawlLog[1].total_pages = 3
    /\ cache.crawlLog[1].timestamp > 0

\* C19, in every step and state: an add_source or remove_source that runs
\* while a sweep is in progress changes neither the sources the sweep works on
\* nor the results it has gathered, every result of the sweep is that of the
\* source at its position among the sources read when the sweep started, and
\* when the sweep returns its results and the logged sources_crawled count
\* exactly those sources.
C19_State ==
    /\ spc \in {"sweeping", "returned"} =>
          \A i \in 1..Len(all_results) :
              /\ i <= Len(sweep_links)
              /\ all_results[i].source_id = sweep_links[i].id
              /\ all_results[i].source_url = sweep_links[i].url
    /\ spc = "returned" =>
          /\ Len(all_results) = Len(sweep_links)
          /\ sweepRet.results = all_results
          /\ cache.crawlLog[1].sources_crawled = Len(sweep_links)

C19_Step ==
    (spc = "sweeping" /\ registry' # registry) =>
        /\ sweep_links' = sweep_links
        /\ all_results' = all_results
        /\ spc' = spc

C19_Snapshot == [](C19_State) /\ [][C19_Step]_vars

\* the second of two sources is about to be crawled although both have been
\* removed from the registry since the sweep started
C19_Witness ==
    /\ spc = "sweeping"
    /\ Len(sweep_links) = 2
    /\ Len(all_results) = 1
    /\ registry = << >>

\* the primitive a max_subpages argument stands for: the value itself, or the
\* value an object wraps
Unwrapped(val) == IF val.t = "dict" /\ val.d # << >> THEN val.d[1].p ELSE val

\* C20: whatever shape the max_subpages argument has, crawl_source does not
\* raise because of it and works with the integer the argument stands for, or
\* with its default of 10 when the argument stands for no integer.
C20_DefensiveCoercion ==
    pc # "idle" =>
        /\ pc # "raised"
        /\ max_subpages = IF int(Unwrapped(call.max_subpages)).ok
                          THEN int(Unwrapped(call.max_subpages)).v
                          ELSE DefaultMaxSubpages

\* ================================ properties: the fetcher and the extractor
\* C22: whatever a sub-page request ends in, the follow loop classifies it as
\* the fetcher does: no response, or a status outside 2xx after redirects, is
\* a fetch error (an errors entry for the requested url, no page, no budget
\* slot); a 2xx response whose content type holds neither text/html nor
\* text/plain is a success: no errors entry, one more pages_crawled entry whose
\* text preview is the placeholder naming the content type, and one budget
\* slot consumed.
C22_Step ==
    \A u \in {interesting[j].url : j \in 1..Len(interesting)} : \A r \in SubHttp(u) :
        CrawlFollowOn(r) =>
            /\ (r.transport # "ok" \/ r.status_code \notin 200..299) =>
                  /\ results'.errors = Append(results.errors, [url |-> u, error |-> "HTTPError"])
                  /\ results'.pages_crawled = results.pages_crawled
                  /\ followed' = followed
            /\ (/\ r.transport = "ok"
                /\ r.status_code \in 200..299
                /\ ~Contains(r.content_type, S_texthtml)
                /\ ~Contains(r.content_type, S_textplain)) =>
                  /\ results'.errors = results.errors
                  /\ Len(results'.pages_crawled) = Len(results.pages_crawled) + 1
                  /\ SubSeq(results'.pages_crawled, 1, Len(results.pages_crawled))
                        = results.pages_crawled
                  /\ results'.pages_crawled[Len(results'.pages_crawled)].text_preview
                        = S_nonhtml \o r.content_type \o S_rparen
                  /\ results'.pages_crawled[Len(results'.pages_crawled)].url = r.url
                  /\ followed' = followed + 1

C22_FetchClassification == [][C22_Step]_vars

\* a crawl that followed a PDF and a page that failed to load: the PDF is a
\* page with the placeholder as its preview, the failure is an error
C22_Witness ==
    /\ pc = "returned"
    /\ followed = 1
    /\ Len(results.errors) = 1
    /\ Len(results.pages_crawled) = 2
    /\ results.pages_crawled[2].text_preview = NonHtmlPlaceholder(CT_pdf)

\* the request of the fetch_page call in progress got a 2xx response
FetchedOk == fetched.http.transport = "ok" /\ fetched.http.status_code \in 200..299

\* the document the call works on: the body, or the placeholder's text
FetchedDoc ==
    IF \/ Contains(fetched.http.content_type, S_texthtml)
       \/ Contains(fetched.http.content_type, S_textplain)
    THEN fetched.http.body
    ELSE PlainDoc(S_nonhtml \o fetched.http.content_type \o S_rparen)

LeadsNowhere(a) ==
    \E href \in {Strip(a.href)} :
        \/ href = EmptyStr
        \/ StartsWith(href, S_hash)
        \/ StartsWith(href, S_javascript)
        \/ StartsWith(href, S_mailto)

\* C23: the links extracted from a document are, in document order, one for
\* each anchor that leads somewhere and resolves to an absolute URL no earlier
\* such anchor resolves to, with that anchor's text; so no two links have the
\* same URL, and no anchor with an empty, fragment, javascript: or mailto: href
\* is among them.
C23_LinkExtraction ==
    (fetched.ret.kind = "page" /\ fetched.ret.links_count <= LinksCap) =>
        \E anchors \in {FetchedDoc.anchors}, links \in {fetched.ret.links} :
        \E res \in {[k \in 1..Len(anchors) |->
                        urljoin(fetched.http.url, Strip(anchors[k].href))]} :
        \E K \in {{k \in 1..Len(anchors) :
                     /\ ~LeadsNowhere(anchors[k])
                     /\ \A m \in 1..(k - 1) : LeadsNowhere(anchors[m]) \/ res[m] # res[k]}} :
            /\ \A i \in 1..Len(links) : \A j \in (i + 1)..Len(links) :
                  links[i].url # links[j].url
            /\ Len(links) = Cardinality(K)
            /\ \A k \in K :
                  links[Rank(K, k)] = [url |-> res[k],
                                       text |-> SubSeq(Strip(anchors[k].text), 1,
                                                       Min(LinkTextLen, Len(Strip(anchors[k].text))))]

\* the page of repeats gives two links: the syllabus under its first text, and
\* the home page
C23_Witness ==
    /\ fetched.http.body = RepeatsPage
    /\ fetched.http.url = SeedUrl
    /\ fetched.ret.kind = "page"
    /\ fetched.ret.links = <<[url |-> U_syllabus, text |-> T_syllabus],
                             [url |-> SeedUrl, text |-> T_home]>>

\* ========================================= properties: the source registry
\* C24: no two sources of the registry have the same url, and add_source with
\* a url that is registered leaves the registry as it is and returns it.
C24_State ==
    \A i \in 1..Len(registry) : \A j \in (i + 1)..Len(registry) :
        registry[i].url # registry[j].url

C24_Step ==
    \A a \in RegistryArgs :
        (/\ add_source(a[1], a[2])
         /\ \E i \in 1..Len(registry) : registry[i].url = _coerce_str(a[1])) =>
            /\ registry' = registry
            /\ listed' = registry

C24_UniqueUrls == [](C24_State) /\ [][C24_Step]_vars

\* two sources are registered, and the call made last, at a later time than
\* either was added, returned the registry as it is
C24_Witness ==
    /\ Len(registry) = 2
    /\ listed = registry
    /\ \A i \in 1..Len(registry) : registry[i].addedAt < now

\* C28: no two sources of the registry have the same id, so remove_source
\* with a source_id alone removes at most one source.
C28_UniqueIds ==
    /\ \A i \in 1..Len(registry) : \A j \in (i + 1)..Len(registry) :
          registry[i].id # registry[j].id
    /\ \A i \in 1..Len(registry) :
          Len(SelectSeq(registry, LAMBDA l : l.id # registry[i].id)) >= Len(registry) - 1

\* ============================================ properties: the follow loop
\* a candidate the loop is to pass over: its scheme is not http or https, or
\* the extension of its path is on the deny-list
PassedOver(url) ==
    \E parsed \in {urlparse(url)} :
        \/ parsed.scheme \notin {S_http, S_https}
        \/ Extension(parsed.path) \in
              {<<"z", "i", "p">>, <<"t", "a", "r">>, <<"g", "z">>, <<"m", "p", "4">>,
               <<"m", "o", "v">>, <<"a", "v", "i">>, <<"m", "p", "3">>, <<"w", "a", "v">>}

\* C25: a candidate whose scheme is not http or https, or whose extension is
\* on the deny-list, is never requested and has no entry in pages_crawled or
\* errors; the budget counts only the sub-pages that were fetched, so a call
\* that returns with budget left has requested every other candidate.
C25_SkippedCandidates ==
    SeedOk =>
        /\ \A i \in 2..Len(netlog) : ~PassedOver(netlog[i].url)
        /\ \A i \in 2..Len(results.pages_crawled) : ~PassedOver(results.pages_crawled[i].url)
        /\ \A i \in 1..Len(results.errors) : ~PassedOver(results.errors[i].url)
        /\ followed = Cardinality({i \in 2..Len(netlog) : netlog[i].outcome = "ok"})
        /\ Len(results.pages_crawled) + Len(results.errors) = Len(netlog)
        /\ (pc = "returned" /\ followed < max_subpages) =>
              \A j \in 1..Len(interesting) :
                  PassedOver(interesting[j].url)
                      \/ \E i \in 2..Len(netlog) : netlog[i].url = interesting[j].url

\* with a budget of one page, the first candidate is passed over and a later
\* one is followed
C25_Witness ==
    /\ pc = "returned"
    /\ max_subpages = 1
    /\ followed = 1
    /\ Len(interesting) >= 2
    /\ PassedOver(interesting[1].url)
    /\ Len(netlog) = 2
    /\ Len(results.pages_crawled) = 2
    /\ \E j \in 2..Len(interesting) : results.pages_crawled[2].url = interesting[j].url

\* C29: within one crawl_source call no URL is requested twice: the requests
\* of the call, the seed's included, are for different URLs.
C29_NoRepeatedRequest ==
    \A i \in 1..Len(netlog) : \A j \in (i + 1)..Len(netlog) :
        netlog[i].url # netlog[j].url

\* ======================================== properties: synthesized ids
\* C27: a save never removes or replaces a stored finding on behalf of an item
\* that was submitted without an id: every stored finding whose id no item of
\* the batch carries is still stored, unchanged, after the save, and the items
\* of the batch end up stored under pairwise different ids.
C27_Step ==
    \A arg \in SynthArgs :
        (save_findings(arg) /\ ret'.kind = "saved") =>
            \E batch \in {SelectSeq(CoerceFindings(arg), LAMBDA f : f.isDict)} :
            \E supplied \in {{batch[i].id : i \in 1..Len(batch)} \ {Absent}} :
                /\ \A k \in 1..Len(cache.findings) :
                      cache.findings[k].id \notin supplied =>
                          \E m \in 1..Len(cache'.findings) :
                              cache'.findings[m] = cache.findings[k]
                /\ \A i \in 1..Len(cache'.findings) : \A j \in (i + 1)..Len(cache'.findings) :
                      cache'.findings[i].id # cache'.findings[j].id

C27_SynthesizedIds == [][C27_Step]_vars

\* ================================ properties: list_findings beside writers
\* C26: list_findings never changes the stored findings, whatever runs between
\* its read of the cache and its write: the write that refreshes lastUpdated
\* leaves the findings as the save_findings or clear_findings call before it
\* left them.
C26_Step ==
    (lister.pc = "read" /\ lister'.pc = "done") => cache'.findings = cache.findings

C26_ListKeepsFindings == [][C26_Step]_vars

\* ============================================ properties: the two stores
\* the locals and the return value of crawl_all_sources
sweepLocals == <<spc, sweep_links, all_results, max_subpages_per_source, sweepRet>>

\* C30: a step of crawl_source or fetch_page changes neither findings_cache.json
\* nor LINKS.json; a step of crawl_all_sources leaves the stored findings and
\* the registry as they are, and what it changes of the cache is crawlLog and
\* lastUpdated; save_findings, list_findings and clear_findings leave crawlLog
\* and the registry as they are. (A step is told by the call whose locals or
\* return value it changes.)
C30_Step ==
    /\ (/\ crawlVars' # crawlVars
        /\ \/ CrawlCallOn(PyStr(SeedUrl), PyInt(1), SweepResponses(SeedUrl))
           \/ CrawlFollow
           \/ CrawlFinish
           \/ CrawlReturn) => (cache' = cache /\ registry' = registry)
    /\ (/\ fetched' # fetched
        /\ \/ \E r \in ServerHttp(SeedUrl) : fetch_page(PyStr(SeedUrl), r)
           \/ FetchReturn) => (cache' = cache /\ registry' = registry)
    /\ (/\ sweepLocals' # sweepLocals
        /\ SweepCall \/ SweepCrawl \/ SweepLog \/ SweepReturn) =>
          /\ cache'.findings = cache.findings
          /\ registry' = registry
    /\ (/\ <<cache, before, lastCall, ret>>' # <<cache, before, lastCall, ret>>
        /\ \/ \E arg \in ServerSaveArgs : save_findings(arg)
           \/ list_findings(PyStr(EmptyStr))
           \/ clear_findings) => (cache'.crawlLog = cache.crawlLog /\ registry' = registry)

C30_StoreFrames == [][C30_Step]_vars

\* a sweep of a registered source has written its log into a cache that
\* holds a finding, and the finding is still there
C30_Witness ==
    /\ spc = "returned"
    /\ Len(registry) = 1
    /\ cache.findings # << >>
    /\ cache.crawlLog # << >>
    /\ cache.crawlLog[1].sources_crawled = 1
    /\ cache.crawlLog[1].total_pages >= 1

====
